---- MODULE Spec2Model ----
(***************************************************************************)
(* Model of the Solace client SDK (task-B): the AES-GCM-256 envelope of    *)
(* src/task-B/src/crypto.js (version 3.0, lines 114-805) and the upload /  *)
(* download helpers of src/task-B/src/http.js.                             *)
(*                                                                         *)
(* Byte arrays are sequences over 0..255.  A base64 string is a sequence   *)
(* of character codes: 0..63 are the alphabet A-Za-z0-9+/ in order, 64 is  *)
(* '=', 65 stands for any character outside the alphabet (such as '-').    *)
(* A text string is a sequence of UTF-16 code units.                       *)
(***************************************************************************)
EXTENDS Integers, Sequences, FiniteSets, TLC

\* ------------------------------------------------------------------------
\* Program constants (crypto.js:121-126, 287, 485)
\* ------------------------------------------------------------------------
AES_KEY_LENGTH == 32
AES_IV_LENGTH == 12
AES_TAG_LENGTH == 16
MAX_PLAINTEXT_SIZE == 16777216
CHUNK_SIZE == 65536
cacheSize == 1024
MaxCachedKeys == 50
MaxRandomLength == 65536
SmallRandomLength == 32

\* ------------------------------------------------------------------------
\* Bounds of the model
\* ------------------------------------------------------------------------
MaxCalls == 2
MaxInFlight == 2
MaxGenerated == 3
WarmKeys == 30
MaxHttpCalls == 2
MaxProbes == 2
MaxShapeLen == 120

PadChar == 64
BadChar == 65

\* ------------------------------------------------------------------------
\* Generic helpers
\* ------------------------------------------------------------------------
Ok(v) == [ok |-> TRUE, val |-> v, code |-> "OK"]
Fail(c) == [ok |-> FALSE, val |-> <<>>, code |-> c]

Min(a, b) == IF a < b THEN a ELSE b

\* the sum of the elements of s, by halves
SumSeq(s) ==
  LET RECURSIVE Go(_, _)
      Go(lo, hi) ==
        IF lo > hi THEN 0
        ELSE IF lo = hi THEN s[lo]
        ELSE LET mid == (lo + hi) \div 2 IN Go(lo, mid) + Go(mid + 1, hi)
  IN Go(1, Len(s))

\* Uint8Array.prototype.slice(from, to) with 0-based, end-exclusive indices
Slice(s, from, to) == [i \in 1..(IF to > from THEN to - from ELSE 0) |-> s[from + i]]

\* ------------------------------------------------------------------------
\* Base64 (btoa / atob and the wrappers of crypto.js)
\* ------------------------------------------------------------------------
\* btoa over the binary string built from the bytes
btoa(bytes) ==
  LET n == Len(bytes)
      B(k) == IF k <= n THEN bytes[k] ELSE 0
  IN [j \in 1..(4 * ((n + 2) \div 3)) |->
        LET g == (j - 1) \div 4
            r == (j - 1) % 4
            b0 == B(3 * g + 1)
            b1 == B(3 * g + 2)
            b2 == B(3 * g + 3)
        IN CASE r = 0 -> b0 \div 4
             [] r = 1 -> (b0 % 4) * 16 + (b1 \div 16)
             [] r = 2 -> IF 3 * g + 2 > n THEN PadChar ELSE (b1 % 16) * 4 + (b2 \div 64)
             [] r = 3 -> IF 3 * g + 3 > n THEN PadChar ELSE b2 % 64]

\* atob: the forgiving-base64 decode of the HTML standard (no whitespace in
\* the model).  Fails with InvalidCharacterError on a bad length or character.
atob(s) ==
  LET n == Len(s)
      pads == IF n % 4 = 0 /\ n >= 2 /\ s[n] = PadChar
              THEN (IF s[n - 1] = PadChar THEN 2 ELSE 1)
              ELSE 0
      m == n - pads
      C(k) == IF k <= m THEN s[k] ELSE 0
  IN IF m % 4 = 1 \/ \E k \in 1..m : s[k] > 63
     THEN Fail("InvalidCharacterError")
     ELSE Ok([k \in 1..((m * 3) \div 4) |->
               LET g == (k - 1) \div 3
                   r == (k - 1) % 3
                   c0 == C(4 * g + 1)
                   c1 == C(4 * g + 2)
                   c2 == C(4 * g + 3)
                   c3 == C(4 * g + 4)
               IN CASE r = 0 -> c0 * 4 + (c1 \div 16)
                    [] r = 1 -> (c1 % 16) * 16 + (c2 \div 4)
                    [] r = 2 -> (c2 % 4) * 64 + c3])

\* /^[A-Za-z0-9+/]*={0,2}$/.test(base64)
Base64FormatOk(s) ==
  \E p \in 0..2 :
    /\ p <= Len(s)
    /\ \A k \in 1..Len(s) : IF k > Len(s) - p THEN s[k] = PadChar ELSE s[k] <= 63

\* toBase64MainThread: one btoa below CHUNK_SIZE, else btoa chunk by chunk
toBase64MainThread(bytes) ==
  IF Len(bytes) < CHUNK_SIZE
  THEN btoa(bytes)
  ELSE LET RECURSIVE Chunks(_, _)
           Chunks(i, acc) ==
             IF i >= Len(bytes) THEN acc
             ELSE Chunks(i + CHUNK_SIZE,
                         acc \o btoa(Slice(bytes, i, Min(i + CHUNK_SIZE, Len(bytes)))))
       IN Chunks(0, <<>>)

\* toBase64: below the worker threshold (and on any worker failure) the main thread
toBase64(bytes) == toBase64MainThread(bytes)

fromBase64MainThread(s) == atob(s)

\* fromBase64: format check, then atob; a non-CryptoError becomes DECODING_ERROR
fromBase64(s) ==
  IF ~Base64FormatOk(s) THEN Fail("INVALID_BASE64")
  ELSE LET r == fromBase64MainThread(s)
       IN IF r.ok THEN r ELSE Fail("DECODING_ERROR")

\* ------------------------------------------------------------------------
\* UTF-8 (TextEncoder.encode / TextDecoder.decode)
\* ------------------------------------------------------------------------
IsHigh(u) == u >= 55296 /\ u <= 56319
IsLow(u) == u >= 56320 /\ u <= 57343
Replacement == <<239, 191, 189>>

EncodeScalar(c) ==
  IF c < 128 THEN <<c>>
  ELSE IF c < 2048 THEN <<192 + (c \div 64), 128 + (c % 64)>>
  ELSE IF c < 65536 THEN <<224 + (c \div 4096), 128 + ((c \div 64) % 64), 128 + (c % 64)>>
  ELSE <<240 + (c \div 262144), 128 + ((c \div 4096) % 64),
         128 + ((c \div 64) % 64), 128 + (c % 64)>>

\* new TextEncoder().encode(str): lone surrogates become U+FFFD
TextEncode(units) ==
  LET RECURSIVE Go(_, _)
      Go(i, acc) ==
        IF i > Len(units) THEN acc
        ELSE LET u == units[i]
             IN IF IsHigh(u) /\ i < Len(units) /\ IsLow(units[i + 1])
                THEN Go(i + 2, acc \o EncodeScalar(65536 + (u - 55296) * 1024
                                                   + (units[i + 1] - 56320)))
                ELSE IF IsHigh(u) \/ IsLow(u)
                THEN Go(i + 1, acc \o Replacement)
                ELSE Go(i + 1, acc \o EncodeScalar(u))
  IN Go(1, <<>>)

IsCont(b) == b >= 128 /\ b <= 191

ScalarUnits(c) ==
  IF c < 65536 THEN <<c>>
  ELSE <<55296 + ((c - 65536) \div 1024), 56320 + ((c - 65536) % 1024)>>

\* new TextDecoder().decode(buf): UTF-8, replacement character on malformed
\* input, and a leading byte order mark is dropped (ignoreBOM defaults false)
TextDecode(bytes) ==
  LET n == Len(bytes)
      At(k) == IF k <= n THEN bytes[k] ELSE 0
      RECURSIVE Go(_, _)
      Go(i, acc) ==
        IF i > n THEN acc
        ELSE LET b == bytes[i]
             IN IF b < 128 THEN Go(i + 1, Append(acc, b))
                ELSE IF b >= 194 /\ b <= 223
                THEN IF i + 1 <= n /\ IsCont(At(i + 1))
                     THEN Go(i + 2, Append(acc, (b - 192) * 64 + (At(i + 1) - 128)))
                     ELSE Go(i + 1, Append(acc, 65533))
                ELSE IF b >= 224 /\ b <= 239
                THEN LET lo == IF b = 224 THEN 160 ELSE 128
                         hi == IF b = 237 THEN 159 ELSE 191
                     IN IF i + 1 <= n /\ At(i + 1) >= lo /\ At(i + 1) <= hi
                        THEN IF i + 2 <= n /\ IsCont(At(i + 2))
                             THEN Go(i + 3, Append(acc, (b - 224) * 4096
                                      + (At(i + 1) - 128) * 64 + (At(i + 2) - 128)))
                             ELSE Go(i + 2, Append(acc, 65533))
                        ELSE Go(i + 1, Append(acc, 65533))
                ELSE IF b >= 240 /\ b <= 244
                THEN LET lo == IF b = 240 THEN 144 ELSE 128
                         hi == IF b = 244 THEN 143 ELSE 191
                     IN IF i + 1 <= n /\ At(i + 1) >= lo /\ At(i + 1) <= hi
                        THEN IF i + 2 <= n /\ IsCont(At(i + 2))
                             THEN IF i + 3 <= n /\ IsCont(At(i + 3))
                                  THEN Go(i + 4, acc \o ScalarUnits((b - 240) * 262144
                                           + (At(i + 1) - 128) * 4096
                                           + (At(i + 2) - 128) * 64 + (At(i + 3) - 128)))
                                  ELSE Go(i + 3, Append(acc, 65533))
                             ELSE Go(i + 2, Append(acc, 65533))
                        ELSE Go(i + 1, Append(acc, 65533))
                ELSE Go(i + 1, Append(acc, 65533))
      start == IF n >= 3 /\ bytes[1] = 239 /\ bytes[2] = 187 /\ bytes[3] = 191 THEN 4 ELSE 1
  IN Go(start, <<>>)

\* ------------------------------------------------------------------------
\* Inputs: key materials, plaintexts, envelopes
\* ------------------------------------------------------------------------
KeyA == [i \in 1..AES_KEY_LENGTH |-> i]
KeyB == [i \in 1..AES_KEY_LENGTH |-> 100 + i]
\* two different 32-byte keys with the same bytes at the even offsets
KeyC == [i \in 1..AES_KEY_LENGTH |-> IF i % 2 = 1 THEN 40 + i ELSE 7]
KeyD == [i \in 1..AES_KEY_LENGTH |-> IF i % 2 = 1 THEN 40 + i ELSE 9]
\* 64 bytes: the bytes of KeyB at the even offsets, zero elsewhere
Long64 == [i \in 1..(2 * AES_KEY_LENGTH) |-> IF i % 2 = 1 THEN KeyB[(i + 1) \div 2] ELSE 0]
Short16 == [i \in 1..16 |-> i]

\* the caller's key buffers (ArrayBuffer contents), by buffer id
InitialHeap == <<KeyA, KeyB, KeyC, KeyD, Long64, Short16>>

StringKey(chars) == [form |-> "string", chars |-> chars, buf |-> 0, width |-> 1]
BufferKey(b) == [form |-> "buffer", chars |-> <<>>, buf |-> b, width |-> 1]
ViewKey(b, w) == [form |-> "view", chars |-> <<>>, buf |-> b, width |-> w]
NullKey == [form |-> "null", chars |-> <<>>, buf |-> 0, width |-> 1]

kStrA == StringKey(btoa(KeyA))
kStrShort == StringKey(btoa(Short16))
kStrBad == StringKey(<<45, 30, 44, 45, BadChar, 36, 30, 50>>)
kBufA == BufferKey(1)
kU8B == ViewKey(2, 1)
kU16C == ViewKey(3, 2)
kU16D == ViewKey(4, 2)
kU16Long == ViewKey(5, 2)
kU8Short == ViewKey(6, 1)

KeyMaterials == {kStrA, kStrShort, kBufA, kU8B, kU16C, kU16D, kU16Long, kU8Short, NullKey}

StringData(units) == [kind |-> "string", units |-> units]
NullData == [kind |-> "null", units |-> <<>>]
UndefinedData == [kind |-> "undefined", units |-> <<>>]
NumberData == [kind |-> "number", units |-> <<>>]

dEmpty == StringData(<<>>)
dSpace == StringData(<<32>>)
dNewline == StringData(<<10>>)
dTab == StringData(<<9>>)
dText == StringData(<<72, 233>>)

DataSet == {dEmpty, dSpace, dText, NullData}

\* binary inputs: an ArrayBuffer or Uint8Array holding these bytes
BinaryData(bytes) == [kind |-> "binary", units |-> bytes]
\* the UTF-8 bytes of 'Hi'; bytes that are no UTF-8; bytes led by EF BB BF
BinarySet == {BinaryData(<<72, 105>>), BinaryData(<<255, 0, 128>>),
              BinaryData(<<239, 187, 191, 65>>)}

NoMeta == [present |-> FALSE, algorithmOk |-> TRUE, dataSize |-> 0]
NoCipher == [isObject |-> FALSE, has |-> {}, iv |-> <<>>, ciphertext |-> <<>>,
             tag |-> <<>>, metadata |-> NoMeta]
EmptyCipher == [NoCipher EXCEPT !.isObject = TRUE]
\* { iv: 'test', ciphertext: 'test', tag: 'test' }
TestCipher == [isObject |-> TRUE, has |-> {"iv", "ciphertext", "tag"},
               iv |-> <<45, 30, 44, 45>>, ciphertext |-> <<45, 30, 44, 45>>,
               tag |-> <<45, 30, 44, 45>>, metadata |-> NoMeta]

HandmadeCiphers == {NoCipher, EmptyCipher, TestCipher}

\* the ways a caller alters an envelope before handing it to decryptBlob
ByteTampers == {"iv_byte", "ct_byte", "tag_byte", "iv_last", "tag_last"}
LengthTampers == {"iv_short", "tag_short", "tag_long"}
FieldTampers == {"no_iv", "no_ct", "no_tag"}
Tampers == {"none", "strip_meta"} \cup ByteTampers \cup LengthTampers \cup FieldTampers

\* the decoded bytes of an envelope field ("" when it does not decode)
Decoded(s) == LET r == fromBase64(s) IN IF r.ok THEN r.val ELSE <<>>

Bump(bytes, p) == [bytes EXCEPT ![p] = (@ + 1) % 256]
BumpFirst(bytes) == IF Len(bytes) = 0 THEN <<1>> ELSE Bump(bytes, 1)
BumpLast(bytes) == IF Len(bytes) = 0 THEN <<1>> ELSE Bump(bytes, Len(bytes))
DropLast(bytes) == IF Len(bytes) = 0 THEN bytes ELSE SubSeq(bytes, 1, Len(bytes) - 1)

Tamper(env, kind) ==
  CASE kind = "none" -> env
    [] kind = "strip_meta" -> [env EXCEPT !.metadata = NoMeta]
    [] kind = "iv_byte" -> [env EXCEPT !.iv = btoa(BumpFirst(Decoded(@)))]
    [] kind = "iv_last" -> [env EXCEPT !.iv = btoa(BumpLast(Decoded(@)))]
    [] kind = "ct_byte" -> [env EXCEPT !.ciphertext = btoa(BumpFirst(Decoded(@)))]
    [] kind = "tag_byte" -> [env EXCEPT !.tag = btoa(BumpFirst(Decoded(@)))]
    [] kind = "tag_last" -> [env EXCEPT !.tag = btoa(BumpLast(Decoded(@)))]
    [] kind = "iv_short" -> [env EXCEPT !.iv = btoa(DropLast(Decoded(@)))]
    [] kind = "tag_short" -> [env EXCEPT !.tag = btoa(DropLast(Decoded(@)))]
    [] kind = "tag_long" -> [env EXCEPT !.tag = btoa(Append(Decoded(@), 0))]
    [] kind = "no_iv" -> [env EXCEPT !.has = @ \ {"iv"}, !.iv = <<>>]
    [] kind = "no_ct" -> [env EXCEPT !.has = @ \ {"ciphertext"}, !.ciphertext = <<>>]
    [] kind = "no_tag" -> [env EXCEPT !.has = @ \ {"tag"}, !.tag = <<>>]

\* ------------------------------------------------------------------------
\* State
\* ------------------------------------------------------------------------
VARIABLES
  heap,            \* the caller's key buffers: buffer id -> bytes
  cryptoKeyCache,  \* the module-level Map, in insertion order: <<cacheKey, CryptoKey>>
  randomCache,     \* getSecureRandom's cache: the source offsets it holds
  cacheIndex,      \* getSecureRandom's read position in randomCache
  drawn,           \* bytes taken from crypto.getRandomValues so far
  handed,          \* source offsets handed out by earlier getSecureRandom calls
  lastHanded,      \* source offsets handed out by the latest getSecureRandom call
  authentic,       \* outputs produced by subtle.encrypt: <<key, iv, data>>
  calls,           \* the in-flight and latest calls, by slot
  envs,            \* envelopes returned by encryptBlob, with their inputs
  started,         \* number of calls begun
  generated,       \* number of generateKey calls of this run
  net,             \* HTTP exchanges of the upload / download helpers
  store,           \* the remote store: blobKey -> payload
  shape,           \* the measurements of the envelope built for one cipher output
  services,        \* the MemoryService instances: their conversationBlobKey field
  localStorage,    \* the localStorage entry 'solace_conversation_key'
  ops,             \* the MemoryService calls, in the order they were made
  vad,             \* the voice-detection generator or processor and its audio graph
  audio,           \* the AudioCaptureService and its MediaRecorders
  trip             \* the outcome of one base64 encode / decode round trip

cryptoVars == <<heap, cryptoKeyCache, randomCache, cacheIndex, drawn, handed, lastHanded,
                authentic, calls, envs, started, generated>>
rngVars == <<randomCache, cacheIndex, drawn, handed, lastHanded>>
httpVars == <<net, store>>
memVars == <<services, localStorage, ops>>
appVars == <<memVars, vad, audio, trip>>

vars == <<heap, cryptoKeyCache, randomCache, cacheIndex, drawn, handed, lastHanded,
          authentic, calls, envs, started, generated, net, store, shape, appVars>>

\* ------------------------------------------------------------------------
\* getSecureRandom (crypto.js:284-316).  The platform source is an endless
\* stream; a random byte is identified by its offset in that stream.
\* ------------------------------------------------------------------------
\* the value of the byte the source produced at an offset
RandVal(o) == IF o % 2 = 0 THEN (o \div 2) % 256 ELSE 255 - ((o \div 512) % 256)

Range(s) == {s[i] : i \in 1..Len(s)}

\* crypto.js:296 - a small request the cache can still serve
UseCache(length) == length <= SmallRandomLength /\ cacheIndex + length <= randomCache.len

\* the source offsets getSecureRandom(length) returns
SecureRandomOffsets(length) ==
  IF UseCache(length)
  THEN [i \in 1..length |-> randomCache.base + cacheIndex + i - 1]
  ELSE [i \in 1..length |-> drawn + i - 1]

\* the read position after getSecureRandom(length)
NextCacheIndex_NoAdvance(length) ==
  IF UseCache(length) THEN cacheIndex
  ELSE IF length > SmallRandomLength THEN cacheIndex ELSE 0

NextCacheIndex(length) ==
  IF UseCache(length) THEN cacheIndex + length
  ELSE IF length > SmallRandomLength THEN cacheIndex ELSE length

getSecureRandom(length) ==
  /\ length > 0 /\ length <= MaxRandomLength
  /\ randomCache' = IF UseCache(length) \/ length > SmallRandomLength
                    THEN randomCache
                    ELSE [base |-> drawn, len |-> cacheSize]
  /\ cacheIndex' = NextCacheIndex(length)
  /\ drawn' = IF UseCache(length) THEN drawn
              ELSE IF length > SmallRandomLength THEN drawn + length ELSE drawn + cacheSize
  /\ handed' = handed \cup Range(lastHanded)
  /\ lastHanded' = SecureRandomOffsets(length)

RandomBytes(offsets) == [i \in 1..Len(offsets) |-> RandVal(offsets[i])]

\* ------------------------------------------------------------------------
\* AES-GCM of the platform (subtle.encrypt / subtle.decrypt), as an ideal
\* AEAD: decryption accepts exactly the outputs encryption produced for
\* the same key and IV.  A CryptoKey is represented by its raw bytes.
\* ------------------------------------------------------------------------
Keystream(key, iv, i) ==
  (key[((i - 1) % Len(key)) + 1] + iv[((i - 1) % Len(iv)) + 1] + i) % 256

AesGcmTag(key, iv, ct) ==
  LET sum == SumSeq(ct)
  IN [i \in 1..AES_TAG_LENGTH |->
        (key[i] + 3 * key[i + 16] + iv[((i - 1) % Len(iv)) + 1]
           + sum + 31 * Len(ct) + i) % 256]

\* subtle.encrypt({name: 'AES-GCM', iv}, key, plainBytes): ciphertext, then tag
AesGcmEncrypt(key, iv, pt) ==
  LET ct == [i \in 1..Len(pt) |-> (pt[i] + Keystream(key, iv, i)) % 256]
  IN ct \o AesGcmTag(key, iv, ct)

Unmask(key, iv, ct) == [i \in 1..Len(ct) |-> (ct[i] + 256 - Keystream(key, iv, i)) % 256]

\* an unauthenticated cipher mode: any input decrypts
AesGcmDecrypt_Unauthenticated(key, iv, data) ==
  IF Len(data) < AES_TAG_LENGTH THEN Fail("OperationError")
  ELSE Ok(Unmask(key, iv, SubSeq(data, 1, Len(data) - AES_TAG_LENGTH)))

\* subtle.decrypt({name: 'AES-GCM', iv}, key, data): OperationError unless authentic
AesGcmDecrypt(key, iv, data) ==
  IF Len(data) >= AES_TAG_LENGTH /\ <<key, iv, data>> \in authentic
  THEN Ok(Unmask(key, iv, SubSeq(data, 1, Len(data) - AES_TAG_LENGTH)))
  ELSE Fail("OperationError")

\* ------------------------------------------------------------------------
\* Key handling (crypto.js:409-497)
\* ------------------------------------------------------------------------
Zeros(n) == [i \in 1..n |-> 0]

\* new Uint8Array(x) as toBase64 applies it to a key material: the bytes of an
\* ArrayBuffer; one element (its low byte) per element of a typed array
Uint8Of(km, h) ==
  CASE km.form = "buffer" -> h[km.buf]
    [] km.form = "view" ->
         [j \in 1..(Len(h[km.buf]) \div km.width) |-> h[km.buf][(j - 1) * km.width + 1]]
    [] OTHER -> <<>>

\* getKey's cache key (crypto.js:461-463)
CacheKeyOf(km, h) ==
  IF km.form = "string" THEN km.chars ELSE toBase64(Uint8Of(km, h))

\* the bytes a key material denotes, and whether it is a valid 32-byte key
KeyBytesOf(km, h) ==
  CASE km.form = "string" -> Decoded(km.chars)
    [] km.form \in {"buffer", "view"} -> h[km.buf]
    [] km.form = "cryptokey" -> km.chars
    [] OTHER -> <<>>

IsRawForm(km) == km.form \in {"string", "buffer", "view"}
HasDecodedLength(km) ==
  km.form \in {"buffer", "view"} \/ (km.form = "string" /\ fromBase64(km.chars).ok)

\* validateKeyMaterial (crypto.js:409-450): the key bytes or the error code.
\* For a buffer or view the bytes are a view of the caller's buffer.
validateKeyMaterial(km, h) ==
  IF km.form = "null" \/ (km.form = "string" /\ Len(km.chars) = 0)
  THEN Fail("MISSING_KEY")
  ELSE LET r == CASE km.form = "string" -> fromBase64(km.chars)
                  [] km.form \in {"buffer", "view"} -> Ok(h[km.buf])
                  [] OTHER -> Fail("INVALID_KEY_TYPE")
       IN IF ~r.ok THEN r
          ELSE IF Len(r.val) # AES_KEY_LENGTH THEN Fail("INVALID_KEY_LENGTH")
          ELSE r

CacheHas(ck) == \E i \in 1..Len(cryptoKeyCache) : cryptoKeyCache[i][1] = ck
CacheGet(ck) ==
  LET i == CHOOSE i \in 1..Len(cryptoKeyCache) : cryptoKeyCache[i][1] = ck
  IN cryptoKeyCache[i][2]

\* Map.prototype.set keeps the position of an existing key
MapSet(m, ck, key) ==
  IF \E i \in 1..Len(m) : m[i][1] = ck
  THEN [i \in 1..Len(m) |-> IF m[i][1] = ck THEN <<ck, key>> ELSE m[i]]
  ELSE Append(m, <<ck, key>>)

\* crypto.js:482-488: store, then drop the oldest entry above 50
CacheStore(m, ck, key) ==
  LET m2 == MapSet(m, ck, key)
  IN IF Len(m2) > MaxCachedKeys THEN Tail(m2) ELSE m2

\* ------------------------------------------------------------------------
\* Calls.  An async function runs from one await to the next without
\* interruption; pc names the await a call is suspended at.
\*   cacheCheck : after `await toBase64(keyMaterial)` in getKey
\*   import     : after validateKeyMaterial, before subtle.importKey
\*   store      : after `await subtle.importKey(...)`
\*   cipher     : after `await getKey(...)`
\*   finish     : after `await subtle.encrypt / subtle.decrypt`
\* ------------------------------------------------------------------------
Slots == 1..MaxInFlight

Idle ==
  [op |-> "idle", pc |-> "idle", data |-> NullData, key |-> NullKey,
   keyAtCall |-> <<>>, cipher |-> NoCipher, src |-> 0, tamper |-> "none",
   plainBytes |-> <<>>, cacheKey |-> <<>>, keyBytes |-> <<>>, cryptoKey |-> <<>>,
   iv |-> <<>>, ivOffsets |-> <<>>, out |-> Fail("none"), status |-> "pending", err |-> "",
   envelope |-> NoCipher, text |-> <<>>, prims |-> {}, cacheHit |-> FALSE]

Free(s) == calls[s].pc \in {"idle", "done"}
LowestFree(s) == Free(s) /\ \A t \in 1..(s - 1) : ~Free(t)

Reject(c, code) == [c EXCEPT !.status = "rejected", !.err = code, !.pc = "done"]

\* a validation that takes whatever is no string as bytes: null, undefined
\* and numbers make an empty Uint8Array
validatePlaintext_Lenient(data) ==
  IF data.kind = "string" THEN Ok(TextEncode(data.units)) ELSE Ok(data.units)

\* validatePlaintext (crypto.js:502-524)
validatePlaintext(data) ==
  CASE data.kind \in {"null", "undefined"} -> Fail("INVALID_DATA")
    [] data.kind = "string" ->
         LET b == TextEncode(data.units)
         IN IF Len(b) > MAX_PLAINTEXT_SIZE THEN Fail("DATA_TOO_LARGE") ELSE Ok(b)
    [] data.kind = "binary" ->
         IF Len(data.units) > MAX_PLAINTEXT_SIZE THEN Fail("DATA_TOO_LARGE")
         ELSE Ok(data.units)
    [] OTHER -> Fail("INVALID_DATA_TYPE")

\* getKey from the cache lookup to the call of validateKeyMaterial
\* (crypto.js:466-470 and 409-437)
GetKeyLookup(c) ==
  IF CacheHas(c.cacheKey)
  THEN [c EXCEPT !.cryptoKey = CacheGet(c.cacheKey), !.cacheHit = TRUE, !.pc = "cipher"]
  ELSE LET v == validateKeyMaterial(c.key, heap)
       IN IF v.ok
          THEN [c EXCEPT !.keyBytes = IF c.key.form = "string" THEN v.val ELSE <<>>,
                         !.pc = "import"]
          ELSE Reject(c, v.code)

\* getKey up to its first await (crypto.js:455-463); a string needs no await
\* before the lookup
GetKeyBegin(c) ==
  IF c.key.form = "cryptokey"
  THEN [c EXCEPT !.cryptoKey = c.key.chars, !.pc = "cipher"]
  ELSE LET c1 == [c EXCEPT !.cacheKey = CacheKeyOf(c.key, heap), !.pc = "cacheCheck"]
       IN IF c.key.form = "string" THEN GetKeyLookup(c1) ELSE c1

\* encryptBlob(data, keyMaterial) up to its first await (crypto.js:555-560)
EncryptBlobStart(s, data, km) ==
  /\ LowestFree(s)
  /\ started' = started + 1
  /\ LET c0 == [Idle EXCEPT !.op = "encryptBlob", !.data = data, !.key = km,
                            !.keyAtCall = KeyBytesOf(km, heap)]
         p == validatePlaintext(data)
     IN calls' = [calls EXCEPT ![s] =
                    IF ~p.ok THEN Reject(c0, p.code)
                    ELSE GetKeyBegin([c0 EXCEPT !.plainBytes = p.val])]
  /\ UNCHANGED <<heap, cryptoKeyCache, rngVars, authentic, envs, generated, httpVars, shape, appVars>>

CipherFalsy(cipher, f) ==
  \/ f \notin cipher.has
  \/ (f = "iv" /\ Len(cipher.iv) = 0)
  \/ (f = "ciphertext" /\ Len(cipher.ciphertext) = 0)
  \/ (f = "tag" /\ Len(cipher.tag) = 0)

\* the checks of decryptBlob before getKey (crypto.js:616-637)
CheckCipher(cipher) ==
  IF ~cipher.isObject THEN Fail("INVALID_CIPHER")
  ELSE IF \E f \in {"iv", "ciphertext", "tag"} : CipherFalsy(cipher, f)
  THEN Fail("INCOMPLETE_CIPHER")
  ELSE IF cipher.metadata.present /\ ~cipher.metadata.algorithmOk
  THEN Fail("UNSUPPORTED_ALGORITHM")
  ELSE Ok(<<>>)

\* decryptBlob(cipher, keyMaterial) up to its first await (crypto.js:612-639)
DecryptBlobStart(s, cipher, src, tamper, km) ==
  /\ LowestFree(s)
  /\ started' = started + 1
  /\ LET c0 == [Idle EXCEPT !.op = "decryptBlob", !.cipher = cipher, !.src = src,
                            !.tamper = tamper, !.key = km,
                            !.keyAtCall = KeyBytesOf(km, heap)]
         p == CheckCipher(cipher)
     IN calls' = [calls EXCEPT ![s] =
                    IF ~p.ok THEN Reject(c0, p.code) ELSE GetKeyBegin(c0)]
  /\ UNCHANGED <<heap, cryptoKeyCache, rngVars, authentic, envs, generated, httpVars, shape, appVars>>

\* getKey resumes after `await toBase64(keyMaterial)` (crypto.js:466-470)
GetKeyCacheCheck(s) ==
  /\ calls[s].pc = "cacheCheck"
  /\ calls' = [calls EXCEPT ![s] = GetKeyLookup(calls[s])]
  /\ UNCHANGED <<heap, cryptoKeyCache, rngVars, authentic, envs, started, generated, httpVars, shape, appVars>>

\* the bytes subtle.importKey reads: the decoded copy of a string, or the
\* caller's buffer as it is now
ImportedBytes(c) == IF c.key.form = "string" THEN c.keyBytes ELSE heap[c.key.buf]

\* getKey calls subtle.importKey (crypto.js:473-479)
GetKeyImport(s) ==
  /\ calls[s].pc = "import"
  /\ calls' = [calls EXCEPT ![s] =
                 [@ EXCEPT !.cryptoKey = ImportedBytes(calls[s]),
                           !.prims = @ \cup {"importKey"}, !.pc = "store"]]
  /\ UNCHANGED <<heap, cryptoKeyCache, rngVars, authentic, envs, started, generated, httpVars, shape, appVars>>

\* keyBytes.fill(0) (crypto.js:491): keyBytes is a view of the caller's buffer
\* unless the key material was a string
ClearedHeap(c) ==
  IF c.key.form = "string" THEN heap
  ELSE [heap EXCEPT ![c.key.buf] = Zeros(Len(@))]

\* getKey after `await subtle.importKey` (crypto.js:481-493)
GetKeyStore(s) ==
  /\ calls[s].pc = "store"
  /\ cryptoKeyCache' = CacheStore(cryptoKeyCache, calls[s].cacheKey, calls[s].cryptoKey)
  /\ heap' = ClearedHeap(calls[s])
  /\ calls' = [calls EXCEPT ![s] = [@ EXCEPT !.keyBytes = Zeros(Len(@)), !.pc = "cipher"]]
  /\ UNCHANGED <<rngVars, authentic, envs, started, generated, httpVars, shape, appVars>>

\* encryptBlob after `await getKey`: IV, then subtle.encrypt (crypto.js:562-575)
EncryptBlobCipher(s) ==
  /\ calls[s].pc = "cipher"
  /\ calls[s].op = "encryptBlob"
  /\ getSecureRandom(AES_IV_LENGTH)
  /\ LET c == calls[s]
         iv == RandomBytes(SecureRandomOffsets(AES_IV_LENGTH))
         out == AesGcmEncrypt(c.cryptoKey, iv, c.plainBytes)
     IN /\ authentic' = authentic \cup {<<c.cryptoKey, iv, out>>}
        /\ calls' = [calls EXCEPT ![s] =
                       [@ EXCEPT !.iv = iv, !.ivOffsets = SecureRandomOffsets(AES_IV_LENGTH),
                                 !.out = Ok(out),
                                 !.prims = @ \cup {"encrypt"}, !.pc = "finish"]]
  /\ UNCHANGED <<heap, cryptoKeyCache, envs, started, generated, httpVars, shape, appVars>>

\* the envelope encryptBlob builds from the cipher output (crypto.js:576-598)
MakeEnvelope(iv, cipherBytes, plainLen) ==
  LET n == Len(cipherBytes)
      tagBytes == Slice(cipherBytes, n - AES_TAG_LENGTH, n)
      ctBytes == Slice(cipherBytes, 0, n - AES_TAG_LENGTH)
  IN [isObject |-> TRUE, has |-> {"iv", "ciphertext", "tag"},
      iv |-> toBase64(iv), ciphertext |-> toBase64(ctBytes), tag |-> toBase64(tagBytes),
      metadata |-> [present |-> TRUE, algorithmOk |-> TRUE, dataSize |-> plainLen]]

\* encryptBlob after `await subtle.encrypt` (crypto.js:576-601)
EncryptBlobFinish(s) ==
  /\ calls[s].pc = "finish"
  /\ calls[s].op = "encryptBlob"
  /\ LET c == calls[s]
         e == MakeEnvelope(c.iv, c.out.val, Len(c.plainBytes))
     IN /\ calls' = [calls EXCEPT ![s] =
                       [@ EXCEPT !.envelope = e, !.status = "resolved", !.pc = "done"]]
        /\ envs' = Append(envs, [data |-> c.data, key |-> c.key, keyAtCall |-> c.keyAtCall,
                                 cryptoKey |-> c.cryptoKey, ivOffsets |-> c.ivOffsets,
                                 envelope |-> e])
  /\ UNCHANGED <<heap, cryptoKeyCache, rngVars, authentic, started, generated, httpVars, shape, appVars>>

\* decryptBlob from the decoding of the fields to the call of subtle.decrypt
\* (crypto.js:642-668): the next state of the call
DecryptInput_NoLengthCheck(c) ==
  LET ivR == fromBase64(c.cipher.iv)
      ctR == fromBase64(c.cipher.ciphertext)
      tagR == fromBase64(c.cipher.tag)
  IN IF ~ivR.ok THEN Reject(c, ivR.code)
     ELSE IF ~ctR.ok THEN Reject(c, ctR.code)
     ELSE IF ~tagR.ok THEN Reject(c, tagR.code)
     ELSE [c EXCEPT !.iv = ivR.val,
                    !.out = AesGcmDecrypt(c.cryptoKey, ivR.val, ctR.val \o tagR.val),
                    !.prims = @ \cup {"decrypt"}, !.pc = "finish"]

DecryptInput(c) ==
  LET ivR == fromBase64(c.cipher.iv)
      ctR == fromBase64(c.cipher.ciphertext)
      tagR == fromBase64(c.cipher.tag)
  IN IF ~ivR.ok THEN Reject(c, ivR.code)
     ELSE IF ~ctR.ok THEN Reject(c, ctR.code)
     ELSE IF ~tagR.ok THEN Reject(c, tagR.code)
     ELSE IF Len(ivR.val) # AES_IV_LENGTH THEN Reject(c, "INVALID_IV")
     ELSE IF Len(tagR.val) # AES_TAG_LENGTH THEN Reject(c, "INVALID_TAG")
     ELSE [c EXCEPT !.iv = ivR.val,
                    !.out = AesGcmDecrypt(c.cryptoKey, ivR.val, ctR.val \o tagR.val),
                    !.prims = @ \cup {"decrypt"}, !.pc = "finish"]

\* decryptBlob after `await getKey` (crypto.js:641-668)
DecryptBlobCipher(s) ==
  /\ calls[s].pc = "cipher"
  /\ calls[s].op = "decryptBlob"
  /\ calls' = [calls EXCEPT ![s] = DecryptInput(calls[s])]
  /\ UNCHANGED <<heap, cryptoKeyCache, rngVars, authentic, envs, started, generated, httpVars, shape, appVars>>

\* a decryptBlob whose failure tells a wrong key from altered data
DecryptOutcome_LeaksCause(c) ==
  IF ~c.out.ok
  THEN Reject(c, IF c.src > 0 /\ c.cryptoKey # envs[c.src].cryptoKey
                 THEN "WRONG_KEY" ELSE "DECRYPTION_FAILED")
  ELSE IF c.cipher.metadata.present /\ c.cipher.metadata.dataSize # 0
          /\ Len(c.out.val) # c.cipher.metadata.dataSize
  THEN Reject(c, "INTEGRITY_ERROR")
  ELSE [c EXCEPT !.text = TextDecode(c.out.val), !.status = "resolved", !.pc = "done"]

\* decryptBlob after `await subtle.decrypt` (crypto.js:669-690)
DecryptOutcome(c) ==
  IF ~c.out.ok THEN Reject(c, "DECRYPTION_FAILED")
  ELSE IF c.cipher.metadata.present /\ c.cipher.metadata.dataSize # 0
          /\ Len(c.out.val) # c.cipher.metadata.dataSize
  THEN Reject(c, "INTEGRITY_ERROR")
  ELSE [c EXCEPT !.text = TextDecode(c.out.val), !.status = "resolved", !.pc = "done"]

DecryptBlobFinish(s) ==
  /\ calls[s].pc = "finish"
  /\ calls[s].op = "decryptBlob"
  /\ calls' = [calls EXCEPT ![s] = DecryptOutcome(calls[s])]
  /\ UNCHANGED <<heap, cryptoKeyCache, rngVars, authentic, envs, started, generated, httpVars, shape, appVars>>

\* generateKey (crypto.js:529-550): 32 bytes from getSecureRandom, imported
\* as an extractable key
generateKey ==
  /\ generated' = generated + 1
  /\ getSecureRandom(AES_KEY_LENGTH)
  /\ UNCHANGED <<heap, cryptoKeyCache, authentic, calls, envs, started, httpVars, shape, appVars>>

\* ------------------------------------------------------------------------
\* The envelope of one cipher output (crypto.js:576-598), by plaintext length
\* ------------------------------------------------------------------------
NoShape == [plainLen |-> -1, ivLen |-> -1, tagOk |-> FALSE, ctOk |-> FALSE, ctLen |-> -1]

\* what the fields of envelope e decode to, against the raw cipher output
ShapeOf(e, raw, plainLen) ==
  LET ivR == fromBase64(e.iv)
      ctR == fromBase64(e.ciphertext)
      tagR == fromBase64(e.tag)
      n == Len(raw)
  IN [plainLen |-> plainLen,
      ivLen |-> IF ivR.ok THEN Len(ivR.val) ELSE -1,
      tagOk |-> tagR.ok /\ tagR.val = SubSeq(raw, n - AES_TAG_LENGTH + 1, n),
      ctOk |-> ctR.ok /\ ctR.val = SubSeq(raw, 1, n - AES_TAG_LENGTH),
      ctLen |-> IF ctR.ok THEN Len(ctR.val) ELSE -1]

\* plaintext lengths: the short ones, and one byte more than a base64 chunk
ShapeLengths == 0..MaxShapeLen \cup {CHUNK_SIZE + 1}

\* encryptBlob from subtle.encrypt to the envelope (crypto.js:575-598) for a
\* plaintext of n bytes, the key KeyA and a 12-byte iv
EnvelopeOfLength(n) ==
  /\ shape = NoShape
  /\ LET plainBytes == [i \in 1..n |-> (i * 7) % 256]
         iv == [i \in 1..AES_IV_LENGTH |-> RandVal(i)]
         cipherBytes == AesGcmEncrypt(KeyA, iv, plainBytes)
     IN shape' = ShapeOf(MakeEnvelope(iv, cipherBytes, n), cipherBytes, n)
  /\ UNCHANGED <<cryptoVars, httpVars, appVars>>

\* ------------------------------------------------------------------------
\* uploadBlob / downloadAndDecrypt (http.js:10-52) and the remote endpoint
\* ------------------------------------------------------------------------
\* JavaScript values the helpers pass around
Val(kind, id, cipher, units) == [kind |-> kind, id |-> id, cipher |-> cipher, units |-> units]
Undefined == Val("undefined", 0, NoCipher, <<>>)
\* the identifier string of the blob stored at position n
BlobKeyString(n) == Val("blobKey", n, NoCipher, <<>>)
StringVal(units) == Val("string", 0, NoCipher, units)
\* 'mock-blob-key-' + Date.now()
MockBlobKey == Val("mockKey", 0, NoCipher, <<>>)
\* 'Mock decrypted content: ...'
MockText == Val("mockText", 0, NoCipher, <<>>)

\* response bodies: { blobKey: b }, the stored envelope, { plaintext: p }
NoBody == Val("none", 0, NoCipher, <<>>)
BlobKeyJson(n) == Val("blobKeyJson", n, NoCipher, <<>>)
\* a body that is the bare identifier
BlobKeyPlain(n) == Val("blobKeyPlain", n, NoCipher, <<>>)
EnvelopeJson(e) == Val("envelopeJson", 0, e, <<>>)
PlaintextJson(units) == Val("plaintextJson", 0, NoCipher, units)

\* response.text(): the body as a string, whatever it contains
ResponseText(body) ==
  IF body.kind = "blobKeyPlain" THEN BlobKeyString(body.id)
  ELSE [body EXCEPT !.kind = "textOf_" \o body.kind]

\* const { plaintext } = await response.json()
BodyPlaintext(body) ==
  IF body.kind = "plaintextJson" THEN StringVal(body.units) ELSE Undefined

\* a fetch Response: ok, status, statusText and the body it carries
Response(ok, status, statusText, body, mode) ==
  [ok |-> ok, status |-> status, statusText |-> statusText, body |-> body, mode |-> mode]

NoResponse == Response(FALSE, 0, "", NoBody, "none")

HttpCall(op, url, payload, src, blobKey, upload, km) ==
  [op |-> op, pc |-> "fetch", url |-> url, payload |-> payload, src |-> src,
   blobKey |-> blobKey, upload |-> upload, key |-> km, requests |-> 0,
   resp |-> NoResponse, status |-> "pending", value |-> Undefined,
   err |-> "", errStatus |-> 0, errText |-> "", decryptArgs |-> <<>>]

\* apiUrl.includes('xxxxx') (http.js:12, 37)
IsMockUrl(url) == url = "mock"

\* uploadBlob(blob, apiUrl) up to `await fetch` (http.js:10-21)
UploadBlobStart(payload, src, url) ==
  /\ Len(net) < MaxHttpCalls
  /\ LET c == HttpCall("uploadBlob", url, payload, src, Undefined, 0, NullKey)
     IN net' = Append(net,
                 IF IsMockUrl(url)
                 THEN [c EXCEPT !.pc = "done", !.status = "resolved", !.value = MockBlobKey]
                 ELSE [c EXCEPT !.requests = 1])
  /\ UNCHANGED <<cryptoVars, store, shape, appVars>>

\* downloadAndDecrypt(blobKey, apiUrl, keyBytes) up to `await fetch` (http.js:35-46)
DownloadAndDecryptStart(blobKey, upload, url, km) ==
  /\ Len(net) < MaxHttpCalls
  /\ LET c == HttpCall("downloadAndDecrypt", url, NoCipher, 0, blobKey, upload, km)
     IN net' = Append(net,
                 IF IsMockUrl(url)
                 THEN [c EXCEPT !.pc = "done", !.status = "resolved", !.value = MockText]
                 ELSE [c EXCEPT !.requests = 1])
  /\ UNCHANGED <<cryptoVars, store, shape, appVars>>

\* the endpoint answers an upload: it stores the payload and names its key
\* (in a JSON body or as the bare text), or answers 500, or the transport fails
ServerAnswersUpload(i) ==
  /\ net[i].pc = "fetch" /\ net[i].op = "uploadBlob"
  /\ \/ /\ store' = Append(store, net[i].payload)
        /\ \E body \in {BlobKeyJson(Len(store) + 1), BlobKeyPlain(Len(store) + 1)} :
             net' = [net EXCEPT ![i] =
                       [@ EXCEPT !.pc = "response",
                                 !.resp = Response(TRUE, 200, "OK", body, "store")]]
     \/ /\ store' = store
        /\ net' = [net EXCEPT ![i] =
                     [@ EXCEPT !.pc = "response",
                               !.resp = Response(FALSE, 500, "Internal Server Error", NoBody, "error")]]
     \/ /\ store' = store
        /\ net' = [net EXCEPT ![i] = [@ EXCEPT !.pc = "failed"]]
  /\ UNCHANGED <<cryptoVars, shape, appVars>>

Stored(v) == v.kind = "blobKey" /\ v.id \in 1..Len(store)

\* the endpoint answers a download: as a store it echoes the envelope kept under
\* the key or answers 404; as a decrypting backend it answers { plaintext };
\* or it answers 500, or the transport fails
ServerAnswersDownload(i) ==
  /\ net[i].pc = "fetch" /\ net[i].op = "downloadAndDecrypt"
  /\ \E r \in {Response(TRUE, 200, "OK", EnvelopeJson(store[net[i].blobKey.id]), "store")
                 : x \in {1} \cap {n \in {1} : Stored(net[i].blobKey)}}
           \cup {Response(FALSE, 404, "Not Found", NoBody, "store")
                 : x \in {1} \cap {n \in {1} : ~Stored(net[i].blobKey)}}
           \cup {Response(TRUE, 200, "OK", PlaintextJson(dText.units), "backend"),
                 Response(FALSE, 500, "Internal Server Error", NoBody, "error"),
                 Response(FALSE, 0, "", NoBody, "transport")} :
       net' = [net EXCEPT ![i] =
                 IF r.mode = "transport" THEN [@ EXCEPT !.pc = "failed"]
                 ELSE [@ EXCEPT !.pc = "response", !.resp = r]]
  /\ UNCHANGED <<cryptoVars, store, shape, appVars>>

\* a helper that turns a rejected fetch into a result
Settle_SwallowFailure(c, value) ==
  IF c.pc = "failed"
  THEN [c EXCEPT !.pc = "done", !.status = "resolved", !.value = Undefined]
  ELSE IF ~c.resp.ok
  THEN [c EXCEPT !.pc = "done", !.status = "rejected",
                 !.err = IF c.op = "uploadBlob" THEN "Upload failed" ELSE "Download failed",
                 !.errStatus = c.resp.status]
  ELSE [c EXCEPT !.pc = "done", !.status = "resolved", !.value = value]

\* the outcome of a call whose fetch has settled (http.js:22-25, 47-51); the
\* error message is the prefix and the status (errText: what else of the
\* response the message carries, nothing); a rejected fetch propagates
Settle(c, value) ==
  IF c.pc = "failed"
  THEN [c EXCEPT !.pc = "done", !.status = "rejected", !.err = "NetworkError"]
  ELSE IF ~c.resp.ok
  THEN [c EXCEPT !.pc = "done", !.status = "rejected",
                 !.err = IF c.op = "uploadBlob" THEN "Upload failed" ELSE "Download failed",
                 !.errStatus = c.resp.status]
  ELSE [c EXCEPT !.pc = "done", !.status = "resolved", !.value = value]

\* uploadBlob after `await fetch` (http.js:22-25): return response.text()
UploadBlobResume(i) ==
  /\ net[i].pc \in {"response", "failed"} /\ net[i].op = "uploadBlob"
  /\ net' = [net EXCEPT ![i] = Settle(net[i], ResponseText(net[i].resp.body))]
  /\ UNCHANGED <<cryptoVars, store, shape, appVars>>

\* downloadAndDecrypt after `await fetch` (http.js:47-51): return the body's plaintext
DownloadAndDecryptResume(i) ==
  /\ net[i].pc \in {"response", "failed"} /\ net[i].op = "downloadAndDecrypt"
  /\ net' = [net EXCEPT ![i] = Settle(net[i], BodyPlaintext(net[i].resp.body))]
  /\ UNCHANGED <<cryptoVars, store, shape, appVars>>

\* ------------------------------------------------------------------------
\* MemoryService (task-C/src/services/memoryService.js) over the SDK
\* ------------------------------------------------------------------------
MaxMemoryOps == 3

\* import.meta.env of each instance: VITE_SOLACE_API_URL, VITE_SOLACE_ENC_KEY.
\* Instances 1 and 2 share one configuration; 3 has no API URL.
MemoryEnv == <<[apiUrl |-> "real", encryptionKey |-> btoa(KeyA)],
               [apiUrl |-> "real", encryptionKey |-> btoa(KeyA)],
               [apiUrl |-> "", encryptionKey |-> btoa(KeyA)]>>

Instances == 1..Len(MemoryEnv)

Null == Val("null", 0, NoCipher, <<>>)

\* !!v for the values a blob key takes
Truthy(v) == v.kind \notin {"null", "undefined"}

\* initializeKey (memoryService.js:19-32): keyBytes, or null
initializeKey(env) ==
  IF Len(env.encryptionKey) = 0 THEN Fail("null") ELSE atob(env.encryptionKey)

\* isConfigured (memoryService.js:110-112)
isConfigured(i) ==
  /\ MemoryEnv[i].apiUrl # ""
  /\ Len(MemoryEnv[i].encryptionKey) > 0
  /\ initializeKey(MemoryEnv[i]).ok

\* conversation histories: a list of messages, each one code unit of the JSON
Histories == {<<77>>}

\* JSON.stringify({ timestamp, history }): the history between the braces
JsonStringify(h) == <<123>> \o h \o <<125>>

\* JSON.parse(text).history: SyntaxError unless text is a string holding a document
JsonParse(v) ==
  IF /\ v.kind = "string"
     /\ Len(v.units) >= 2
     /\ v.units[1] = 123
     /\ v.units[Len(v.units)] = 125
  THEN Ok(SubSeq(v.units, 2, Len(v.units) - 1))
  ELSE Fail("SyntaxError")

\* new Blob([conversationData], { type: 'application/json' })
BlobData(bytes) == [kind |-> "blob", units |-> bytes]

\* the plaintext bytes of the first encryptBlob of crypto.js (line 82): a string is
\* encoded; `new Uint8Array(data)` copies bytes and is empty for any other object
PlainBytesV1(data) ==
  CASE data.kind = "string" -> TextEncode(data.units)
    [] data.kind = "binary" -> data.units
    [] OTHER -> <<>>

\* the envelope of the first encryptBlob of crypto.js (lines 85-92)
EnvelopeV1(iv, cipherBytes) ==
  LET n == Len(cipherBytes)
  IN [isObject |-> TRUE, has |-> {"iv", "ciphertext", "tag"},
      iv |-> btoa(iv),
      ciphertext |-> btoa(Slice(cipherBytes, 0, n - AES_TAG_LENGTH)),
      tag |-> btoa(Slice(cipherBytes, n - AES_TAG_LENGTH, n)),
      metadata |-> NoMeta]

NoCall == HttpCall("none", "", NoCipher, 0, Undefined, 0, NullKey)

\* the calls that have not settled
PendingOps == {m \in 1..Len(ops) : ops[m].status = "pending"}

MemOp(op, i, h) ==
  [op |-> op, inst |-> i, pc |-> "start", history |-> h, http |-> NoCall,
   status |-> "pending", blobKey |-> Null, loaded |-> <<>>, err |-> "", cause |-> "",
   pending |-> PendingOps]

MemReject(o, err, cause) ==
  [o EXCEPT !.pc = "done", !.status = "rejected", !.err = err, !.cause = cause]

\* uploadBlob / downloadAndDecrypt up to `await fetch` (http.js:10-21, 35-46)
SdkFetch(c) ==
  IF IsMockUrl(c.url)
  THEN [c EXCEPT !.pc = "done", !.status = "resolved",
                 !.value = IF c.op = "uploadBlob" THEN MockBlobKey ELSE MockText]
  ELSE [c EXCEPT !.requests = 1]

\* saveConversation up to `await encryptBlob` (memoryService.js:37-53)
saveConversation(i, h) ==
  /\ Len(ops) < MaxMemoryOps
  /\ ops' = Append(ops,
       IF ~isConfigured(i)
       THEN MemReject(MemOp("saveConversation", i, h),
                      "Memory service not properly configured", "")
       ELSE [MemOp("saveConversation", i, h) EXCEPT !.pc = "encryptBlob"])
  /\ UNCHANGED <<services, localStorage, cryptoVars, httpVars, shape, trip, vad, audio>>

\* `await encryptBlob(dataBlob, this.keyBytes)` settles.  crypto.js holds two
\* encryptBlob functions: the later one (lines 555-607) validates the data and
\* rejects a Blob; the earlier one (lines 79-93) encrypts `new Uint8Array(data)`
\* under a fresh IV.  On success saveConversation goes on to uploadBlob, up to
\* its fetch (memoryService.js:53-56).
SaveEncryptBlob(n) ==
  /\ ops[n].pc = "encryptBlob"
  /\ LET o == ops[n]
         data == BlobData(TextEncode(JsonStringify(o.history)))
         p == validatePlaintext(data)
         key == initializeKey(MemoryEnv[o.inst]).val
         iv == RandomBytes([k \in 1..AES_IV_LENGTH |-> drawn + k - 1])
         out == AesGcmEncrypt(key, iv, PlainBytesV1(data))
         c == HttpCall("uploadBlob", MemoryEnv[o.inst].apiUrl, EnvelopeV1(iv, out),
                       0, Undefined, 0, NullKey)
     IN \/ /\ ~p.ok
           /\ ops' = [ops EXCEPT ![n] = MemReject(o, "Memory save failed", p.code)]
           /\ UNCHANGED <<drawn, authentic>>
        \/ /\ Len(key) = AES_KEY_LENGTH
           /\ drawn' = drawn + AES_IV_LENGTH
           /\ authentic' = authentic \cup {<<key, iv, out>>}
           /\ ops' = [ops EXCEPT ![n] = [o EXCEPT !.pc = "uploadBlob", !.http = SdkFetch(c)]]
  /\ UNCHANGED <<services, localStorage, heap, cryptoKeyCache, randomCache, cacheIndex,
                 handed, lastHanded, calls, envs, started, generated, httpVars, shape, trip, vad, audio>>

\* the endpoint answers the upload of a save: it stores the payload and names its
\* key (in a JSON body or as the bare text), or answers 500, or the transport fails
EndpointAnswersSave(n) ==
  /\ ops[n].pc = "uploadBlob" /\ ops[n].http.pc = "fetch"
  /\ \/ /\ store' = Append(store, ops[n].http.payload)
        /\ \E body \in {BlobKeyJson(Len(store) + 1), BlobKeyPlain(Len(store) + 1)} :
             ops' = [ops EXCEPT ![n].http =
                       [@ EXCEPT !.pc = "response",
                                 !.resp = Response(TRUE, 200, "OK", body, "store")]]
     \/ /\ store' = store
        /\ ops' = [ops EXCEPT ![n].http =
                     [@ EXCEPT !.pc = "response",
                               !.resp = Response(FALSE, 500, "Internal Server Error", NoBody, "error")]]
     \/ /\ store' = store
        /\ ops' = [ops EXCEPT ![n].http = [@ EXCEPT !.pc = "failed"]]
  /\ UNCHANGED <<services, localStorage, cryptoVars, net, shape, trip, vad, audio>>

\* the SDK call of an operation, settled
SdkSettled(c, value) == IF c.pc = "done" THEN c ELSE Settle(c, value)

\* a save that stores whatever the upload produced, failed or not
StoredKeyAfterSave_Unconditional(c, old) == c.value

\* the stored blob key after `await uploadBlob` (memoryService.js:56-60): the
\* assignments are reached only when the upload resolved
StoredKeyAfterSave(c, old) == IF c.status = "resolved" THEN c.value ELSE old

\* saveConversation after `await uploadBlob` (memoryService.js:56-67)
SaveResume(n) ==
  /\ ops[n].pc = "uploadBlob" /\ ops[n].http.pc \in {"response", "failed", "done"}
  /\ LET o == ops[n]
         c == SdkSettled(o.http, ResponseText(o.http.resp.body))
     IN /\ services' = [services EXCEPT ![o.inst].conversationBlobKey =
                          StoredKeyAfterSave(c, @)]
        /\ localStorage' = StoredKeyAfterSave(c, localStorage)
        /\ ops' = [ops EXCEPT ![n] =
                     IF c.status = "resolved"
                     THEN [o EXCEPT !.pc = "done", !.status = "resolved", !.http = c,
                                    !.blobKey = c.value]
                     ELSE MemReject([o EXCEPT !.http = c], "Memory save failed", c.err)]
  /\ UNCHANGED <<cryptoVars, httpVars, shape, trip, vad, audio>>

\* this.conversationBlobKey || localStorage.getItem('solace_conversation_key')
FoundBlobKey(i) ==
  IF Truthy(services[i].conversationBlobKey)
  THEN services[i].conversationBlobKey ELSE localStorage

\* loadConversation up to `await downloadAndDecrypt` (memoryService.js:73-87)
loadConversation(i) ==
  /\ Len(ops) < MaxMemoryOps
  /\ LET o == MemOp("loadConversation", i, <<>>)
         blobKey == FoundBlobKey(i)
         c == HttpCall("downloadAndDecrypt", MemoryEnv[i].apiUrl, NoCipher, 0, blobKey, 0,
                       NullKey)
     IN ops' = Append(ops,
          IF ~isConfigured(i) \/ ~Truthy(blobKey)
          THEN [o EXCEPT !.pc = "done", !.status = "resolved"]
          ELSE [o EXCEPT !.pc = "downloadAndDecrypt", !.blobKey = blobKey,
                         !.http = SdkFetch(c)])
  /\ UNCHANGED <<services, localStorage, cryptoVars, httpVars, shape, trip, vad, audio>>

\* what a decrypting backend answers for a stored envelope: its plaintext
BackendPlaintext(e, key) ==
  LET r == AesGcmDecrypt(key, Decoded(e.iv), Decoded(e.ciphertext) \o Decoded(e.tag))
  IN IF r.ok THEN TextDecode(r.val) ELSE <<>>

\* the endpoint answers the download of a load: it echoes the envelope kept under
\* the key, or decrypts it and answers { plaintext }, or answers { plaintext } with
\* a conversation document it holds under that key, or answers 404 for a key it
\* never issued; or it answers 500, or the transport fails
EndpointAnswersLoad(n) ==
  /\ ops[n].pc = "downloadAndDecrypt" /\ ops[n].http.pc = "fetch"
  /\ LET k == ops[n].http.blobKey
         key == initializeKey(MemoryEnv[ops[n].inst]).val
     IN \E r \in (IF Stored(k)
                  THEN {Response(TRUE, 200, "OK", EnvelopeJson(store[k.id]), "store"),
                        Response(TRUE, 200, "OK",
                                 PlaintextJson(BackendPlaintext(store[k.id], key)), "backend")}
                       \cup {Response(TRUE, 200, "OK", PlaintextJson(JsonStringify(h)), "document")
                             : h \in Histories}
                  ELSE {Response(FALSE, 404, "Not Found", NoBody, "store")})
                 \cup {Response(FALSE, 500, "Internal Server Error", NoBody, "error"),
                       Response(FALSE, 0, "", NoBody, "transport")} :
          ops' = [ops EXCEPT ![n].http =
                    IF r.mode = "transport" THEN [@ EXCEPT !.pc = "failed"]
                    ELSE [@ EXCEPT !.pc = "response", !.resp = r]]
  /\ UNCHANGED <<services, localStorage, cryptoVars, httpVars, shape, trip, vad, audio>>

\* a load that lets the failure of the download or of JSON.parse through
LoadOutcome_Rethrow(c) ==
  IF c.status # "resolved" THEN Fail(c.err) ELSE JsonParse(c.value)

\* the value of loadConversation once downloadAndDecrypt settled
\* (memoryService.js:87-96): the parsed history, [] on any failure
LoadOutcome(c) ==
  IF c.status # "resolved" THEN Ok(<<>>)
  ELSE LET j == JsonParse(c.value) IN IF j.ok THEN j ELSE Ok(<<>>)

\* loadConversation after `await downloadAndDecrypt` (memoryService.js:87-96)
LoadResume(n) ==
  /\ ops[n].pc = "downloadAndDecrypt" /\ ops[n].http.pc \in {"response", "failed", "done"}
  /\ LET o == ops[n]
         c == SdkSettled(o.http, BodyPlaintext(o.http.resp.body))
         r == LoadOutcome(c)
     IN ops' = [ops EXCEPT ![n] =
                  IF r.ok
                  THEN [o EXCEPT !.pc = "done", !.status = "resolved", !.http = c,
                                 !.loaded = r.val]
                  ELSE MemReject([o EXCEPT !.http = c], r.code, "")]
  /\ UNCHANGED <<services, localStorage, cryptoVars, httpVars, shape, trip, vad, audio>>

\* clearConversation (memoryService.js:102-105)
clearConversation(i) ==
  /\ Len(ops) < MaxMemoryOps
  /\ services' = [services EXCEPT ![i].conversationBlobKey = Null]
  /\ localStorage' = Null
  /\ ops' = Append(ops, [MemOp("clearConversation", i, <<>>) EXCEPT
                           !.pc = "done", !.status = "resolved"])
  /\ UNCHANGED <<cryptoVars, httpVars, shape, trip, vad, audio>>

\* the services as constructed (memoryService.js:8-14), nothing stored
InitMemory ==
  /\ services = [i \in Instances |-> [conversationBlobKey |-> Null]]
  /\ localStorage = Null
  /\ ops = <<>>

\* ------------------------------------------------------------------------
\* Voice activity detection: the browser generator and its ScriptProcessor
\* (task-B/src/vadBrowser.js), the AudioWorklet processor
\* (task-B/src/vad-processor.js:1-55) and the Node generator
\* (unnamed/part_015).  A sample is its position in the captured stream and its
\* amplitude in thousandths; the frame length is scaled down.
\* ------------------------------------------------------------------------
FrameLength == 3
MaxSamples == 6
MaxInput == 4
MaxRequests == 3

\* rmsThreshold: 0.015, in thousandths
RmsThreshold == 15
\* the amplitudes of a quiet and of a loud callback, in thousandths
Amplitudes == {0, 20}

Sample(p, a) == [pos |-> p, amp |-> a]

\* new Float32Array(frameLength): zeros, no captured sample
ZeroFrame(n) == [k \in 1..n |-> Sample(0, 0)]

\* Math.sqrt(buf.reduce((sum, s) => sum + s * s, 0) / buf.length) > rmsThreshold
RmsAboveThreshold(frame) ==
  SumSeq([k \in 1..Len(frame) |-> frame[k].amp * frame[k].amp])
    > RmsThreshold * RmsThreshold * Len(frame)

\* a framing that handles the input once, with `if` in place of `while`
FillFrames_Once(frameLength, buf, bufOffset, input, i, out) ==
  LET toCopy == Min(frameLength - bufOffset, Len(input) - i)
      filled == [k \in 1..Len(buf) |->
                   IF k > bufOffset /\ k <= bufOffset + toCopy
                   THEN input[i + k - bufOffset] ELSE buf[k]]
  IN IF bufOffset + toCopy = frameLength
     THEN [buf |-> filled, bufOffset |-> 0, out |-> Append(out, filled)]
     ELSE [buf |-> filled, bufOffset |-> bufOffset + toCopy, out |-> out]

\* the loop of onaudioprocess (vadBrowser.js:47-64) and of process
\* (vad-processor.js:27-49): the buffer, the offset and the frames completed
FillFrames(frameLength, buf, bufOffset, input, i, out) ==
  LET RECURSIVE Go(_, _, _, _)
      Go(b, off, j, done) ==
        IF j >= Len(input) THEN [buf |-> b, bufOffset |-> off, out |-> done]
        ELSE LET remain == frameLength - off
                 toCopy == Min(remain, Len(input) - j)
                 filled == [k \in 1..Len(b) |->
                              IF k > off /\ k <= off + toCopy
                              THEN input[j + k - off] ELSE b[k]]
             IN IF off + toCopy = frameLength
                THEN Go(filled, 0, j + toCopy, Append(done, filled))
                ELSE Go(filled, off + toCopy, j + toCopy, done)
  IN Go(buf, bufOffset, i, out)

\* the frames among those completed that are pushed to the queue / posted
VoicedFrames(frames) == SelectSeq(frames, RmsAboveThreshold)

\* no generator or processor created yet
NoVad ==
  [impl |-> "none", state |-> "suspendedStart", pc |-> "start", requests |-> <<>>,
   asked |-> 0, queue |-> <<>>, frameLength |-> 0, buf |-> <<>>, bufOffset |-> 0,
   buffer |-> [store |-> <<>>, byteOffset |-> 0],
   heard |-> <<>>, discarded |-> 0, framed |-> <<>>, voiced |-> <<>>, yielded |-> <<>>,
   acquired |-> FALSE, connected |-> FALSE, onaudioprocess |-> FALSE,
   tracksStopped |-> FALSE, ctxClosed |-> FALSE, stopRequested |-> FALSE]

\* recordAndDetectVoice() of the facade (vad/index.js:6-15) returns the generator
\* of the platform, not started; `new VADProcessor()` (vad-processor.js:3-20)
CreateVad(impl) ==
  /\ vad.impl = "none"
  /\ vad' = [NoVad EXCEPT !.impl = impl]
  /\ UNCHANGED <<cryptoVars, httpVars, shape, trip, memVars, audio>>

\* the consumer calls next() or return() on the generator
ConsumerRequest(kind) ==
  /\ vad.impl \in {"browser", "node"}
  /\ vad.asked < MaxRequests
  /\ vad' = [vad EXCEPT !.requests = Append(@, kind), !.asked = @ + 1,
                        !.stopRequested = @ \/ kind = "return"]
  /\ UNCHANGED <<cryptoVars, httpVars, shape, trip, memVars, audio>>

\* the finally block of the browser generator (vadBrowser.js:80-87)
BrowserCleanup(v) ==
  [v EXCEPT !.connected = FALSE, !.onaudioprocess = FALSE, !.tracksStopped = TRUE,
            !.ctxClosed = TRUE]

\* the runtime takes the next request of a generator that is not executing: a
\* completed generator answers done; next() starts or continues the body;
\* return() completes a generator that never started, and at a yield it runs
\* the finally block (browser) or ends the `for await` (Node)
GeneratorResume ==
  /\ vad.impl \in {"browser", "node"}
  /\ vad.state \in {"suspendedStart", "suspendedYield", "completed"}
  /\ vad.requests # <<>>
  /\ vad' =
       IF vad.state = "completed" THEN [vad EXCEPT !.requests = Tail(@)]
       ELSE IF Head(vad.requests) = "next"
       THEN [vad EXCEPT !.state = "executing",
                        !.pc = IF vad.state = "suspendedYield"
                               THEN (IF vad.impl = "browser" THEN "loop" ELSE "frames")
                               ELSE (IF vad.impl = "browser" THEN "getUserMedia" ELSE "chunk")]
       ELSE IF vad.state = "suspendedStart" \/ vad.impl = "node"
       THEN [vad EXCEPT !.state = "completed", !.pc = "done", !.requests = Tail(@)]
       ELSE [BrowserCleanup(vad) EXCEPT !.state = "completed", !.pc = "done",
                                        !.requests = Tail(@)]
  /\ UNCHANGED <<cryptoVars, httpVars, shape, trip, memVars, audio>>

\* `await navigator.mediaDevices.getUserMedia` settles (vadBrowser.js:35-71): the
\* graph is built and the handler installed, or the generator throws
GetUserMediaSettles ==
  /\ vad.impl = "browser" /\ vad.state = "executing" /\ vad.pc = "getUserMedia"
  /\ \/ vad' = [vad EXCEPT !.pc = "loop", !.acquired = TRUE, !.connected = TRUE,
                           !.onaudioprocess = TRUE, !.frameLength = FrameLength,
                           !.buf = ZeroFrame(FrameLength), !.bufOffset = 0]
     \/ vad' = [vad EXCEPT !.state = "completed", !.pc = "done", !.requests = Tail(@)]
  /\ UNCHANGED <<cryptoVars, httpVars, shape, trip, memVars, audio>>

\* one turn of `while (true)` (vadBrowser.js:73-79): yield the head of the queue,
\* or wait frameMs
PollQueue ==
  /\ vad.impl = "browser" /\ vad.state = "executing" /\ vad.pc = "loop"
  /\ vad' = IF vad.queue # <<>>
            THEN [vad EXCEPT !.yielded = Append(@, Head(vad.queue)), !.queue = Tail(@),
                             !.state = "suspendedYield", !.requests = Tail(@)]
            ELSE [vad EXCEPT !.pc = "sleep"]
  /\ UNCHANGED <<cryptoVars, httpVars, shape, trip, memVars, audio>>

\* the timer of `await new Promise((r) => setTimeout(r, frameMs))` fires
SleepEnds ==
  /\ vad.impl = "browser" /\ vad.state = "executing" /\ vad.pc = "sleep"
  /\ vad' = [vad EXCEPT !.pc = "loop"]
  /\ UNCHANGED <<cryptoVars, httpVars, shape, trip, memVars, audio>>

\* the samples of one callback or chunk: n samples of one amplitude
Captured(n, a) == [k \in 1..n |-> Sample(Len(vad.heard) + k, a)]

\* processor.onaudioprocess (vadBrowser.js:45-65)
OnAudioProcess(n, a) ==
  /\ vad.impl = "browser" /\ vad.connected /\ vad.onaudioprocess
  /\ Len(vad.heard) + n <= MaxSamples
  /\ LET input == Captured(n, a)
         r == FillFrames(vad.frameLength, vad.buf, vad.bufOffset, input, 0, <<>>)
     IN vad' = [vad EXCEPT !.heard = @ \o input, !.buf = r.buf, !.bufOffset = r.bufOffset,
                           !.framed = @ \o r.out, !.queue = @ \o VoicedFrames(r.out)]
  /\ UNCHANGED <<cryptoVars, httpVars, shape, trip, memVars, audio>>

\* port.onmessage with { type: 'init' } (vad-processor.js:11-19)
WorkletInit ==
  /\ vad.impl = "worklet" /\ vad.buf = <<>>
  /\ vad' = [vad EXCEPT !.frameLength = FrameLength, !.buf = ZeroFrame(FrameLength),
                        !.bufOffset = 0]
  /\ UNCHANGED <<cryptoVars, httpVars, shape, trip, memVars, audio>>

\* process(inputs) (vad-processor.js:22-52): without a buffer the input is
\* passed over; else the frames are filled and the voiced ones posted
WorkletProcess(n, a) ==
  /\ vad.impl = "worklet"
  /\ Len(vad.heard) + n <= MaxSamples
  /\ LET input == Captured(n, a)
         r == FillFrames(vad.frameLength, vad.buf, vad.bufOffset, input, 0, <<>>)
     IN vad' = IF vad.buf = <<>>
               THEN [vad EXCEPT !.heard = @ \o input, !.discarded = @ + n]
               ELSE [vad EXCEPT !.heard = @ \o input, !.buf = r.buf,
                                !.bufOffset = r.bufOffset, !.framed = @ \o r.out,
                                !.queue = @ \o VoicedFrames(r.out)]
  /\ UNCHANGED <<cryptoVars, httpVars, shape, trip, memVars, audio>>

\* the bytes a Buffer views: its ArrayBuffer from its byteOffset on
BufferBytes(b) == SubSeq(b.store, b.byteOffset + 1, Len(b.store))

\* `for await (const chunk of mic)` delivers a chunk: buffer = Buffer.concat(
\* [buffer, chunk]), a new ArrayBuffer (part_015:18-19); or the stream ends
MicChunk(n, a) ==
  /\ vad.impl = "node" /\ vad.state = "executing" /\ vad.pc = "chunk"
  /\ Len(vad.heard) + n <= MaxSamples
  /\ LET chunk == Captured(n, a)
     IN vad' = [vad EXCEPT !.heard = @ \o chunk, !.pc = "frames",
                           !.buffer = [store |-> BufferBytes(@) \o chunk, byteOffset |-> 0]]
  /\ UNCHANGED <<cryptoVars, httpVars, shape, trip, memVars, audio>>

MicEnds ==
  /\ vad.impl = "node" /\ vad.state = "executing" /\ vad.pc = "chunk"
  /\ vad' = [vad EXCEPT !.state = "completed", !.pc = "done", !.requests = Tail(@)]
  /\ UNCHANGED <<cryptoVars, httpVars, shape, trip, memVars, audio>>

\* `frame.buffer` (part_015:24): the ArrayBuffer the slice is a view of, whole
NodeYielded(frame, b) == b.store

\* one turn of `while (buffer.length >= FRAME_SIZE_BYTES)` (part_015:20-26):
\* slice a frame off (views of the same ArrayBuffer), ask the detector, yield
NodeFrame(voice) ==
  /\ vad.impl = "node" /\ vad.state = "executing" /\ vad.pc = "frames"
  /\ LET bytes == BufferBytes(vad.buffer)
         frame == SubSeq(bytes, 1, FrameLength)
         rest == [vad.buffer EXCEPT !.byteOffset = @ + FrameLength]
     IN vad' =
          IF Len(bytes) < FrameLength THEN [vad EXCEPT !.pc = "chunk"]
          ELSE IF voice
          THEN [vad EXCEPT !.buffer = rest,
                           !.framed = Append(@, frame),
                           !.voiced = Append(@, frame),
                           !.yielded = Append(@, NodeYielded(frame, vad.buffer)),
                           !.state = "suspendedYield", !.requests = Tail(@)]
          ELSE [vad EXCEPT !.buffer = rest, !.framed = Append(@, frame)]
  /\ UNCHANGED <<cryptoVars, httpVars, shape, trip, memVars, audio>>

InitVad == vad = NoVad

\* ------------------------------------------------------------------------
\* AudioCaptureService (task-C/src/services/audioCapture.js:6-341), initialized,
\* with the MediaRecorder objects it creates.  A chunk is <<recorder, number>>.
\* ------------------------------------------------------------------------
MaxRecordings == 2
MaxChunks == 2
MaxStops == 2

\* the service as constructed (audioCapture.js:7-13), no timer pending
NoAudio ==
  [mediaRecorder |-> 0, audioChunks |-> <<>>, isRecording |-> FALSE,
   recorders |-> <<>>, stops |-> <<>>, timers |-> 0]

\* new MediaRecorder(...) with the handlers of startRecording, started
NewRecorder(afterStop) ==
  [state |-> "recording", ondataavailable |-> TRUE, onstart |-> TRUE, onstop |-> 0,
   startPending |-> TRUE, stopPending |-> FALSE, emitted |-> 0,
   afterStop |-> afterStop, stopRequested |-> FALSE]

\* a recording has been stopped, every stopRecording made so far has resolved
\* and no recorder is recording or has its stop event outstanding
StopsResolved ==
  /\ \E k \in 1..Len(audio.stops) : audio.stops[k].rec # 0
  /\ \A k \in 1..Len(audio.stops) : audio.stops[k].status = "resolved"
  /\ \A r \in 1..Len(audio.recorders) :
       audio.recorders[r].state = "inactive" /\ ~audio.recorders[r].stopPending

\* startRecording (audioCapture.js:100-144) on the initialized service
startRecording ==
  /\ Len(audio.recorders) < MaxRecordings
  /\ audio' = [audio EXCEPT !.audioChunks = <<>>,
                            !.recorders = Append(@, NewRecorder(StopsResolved)),
                            !.mediaRecorder = Len(audio.recorders) + 1]
  /\ UNCHANGED <<cryptoVars, httpVars, shape, trip, memVars, vad>>

\* the start event of a recorder: onstart (audioCapture.js:126-129)
RecorderStart(r) ==
  /\ audio.recorders[r].startPending
  /\ audio' = [audio EXCEPT !.recorders[r].startPending = FALSE,
                            !.isRecording = @ \/ audio.recorders[r].onstart]
  /\ UNCHANGED <<cryptoVars, httpVars, shape, trip, memVars, vad>>

\* handleDataAvailable (audioCapture.js:149-155) for the next chunk of recorder r,
\* if the recorder still has the handler
Delivered(a, r) ==
  LET rec == a.recorders[r]
  IN [a EXCEPT !.recorders[r].emitted = @ + 1,
               !.audioChunks = IF rec.ondataavailable
                               THEN Append(@, <<r, rec.emitted + 1>>) ELSE @]

\* a timeslice of a recording recorder ends: dataavailable
DataAvailable(r) ==
  /\ audio.recorders[r].state = "recording"
  /\ audio.recorders[r].emitted < MaxChunks
  /\ audio' = Delivered(audio, r)
  /\ UNCHANGED <<cryptoVars, httpVars, shape, trip, memVars, vad>>

\* createOptimizedBlob (audioCapture.js:265-273): a copy of the chunks
createOptimizedBlob(a) == a.audioChunks

\* the settlement of a stopRecording with the blob, and scheduleCleanup
\* (audioCapture.js:278-281)
ResolveStop(a, k) ==
  [a EXCEPT !.stops[k].status = "resolved", !.stops[k].blob = createOptimizedBlob(a),
            !.isRecording = FALSE, !.timers = @ + 1]

\* stopRecording (audioCapture.js:199-260): without a recorder an empty blob;
\* with an inactive one the chunks held; with a recording one the stop handler
\* is installed and the recorder stopped
stopRecording ==
  /\ Len(audio.stops) < MaxStops
  /\ LET k == Len(audio.stops) + 1
         r == audio.mediaRecorder
         asked == [audio EXCEPT !.stops = Append(@, [rec |-> r, status |-> "pending",
                                                     blob |-> <<>>])]
     IN audio' =
          IF r = 0
          THEN [asked EXCEPT !.stops[k].status = "resolved", !.isRecording = FALSE]
          ELSE IF audio.recorders[r].state = "inactive"
          THEN ResolveStop(asked, k)
          ELSE [asked EXCEPT !.recorders[r].onstop = k,
                             !.recorders[r].state = "inactive",
                             !.recorders[r].stopPending = TRUE,
                             !.recorders[r].stopRequested = TRUE]
  /\ UNCHANGED <<cryptoVars, httpVars, shape, trip, memVars, vad>>

\* the task a stopped recorder queues: the last dataavailable, then stop, whose
\* handler (audioCapture.js:227-237) settles the stopRecording that installed it
RecorderStop(r) ==
  /\ audio.recorders[r].stopPending
  /\ LET given == [Delivered(audio, r) EXCEPT !.recorders[r].stopPending = FALSE]
         k == audio.recorders[r].onstop
     IN audio' = IF k = 0 THEN given ELSE ResolveStop(given, k)
  /\ UNCHANGED <<cryptoVars, httpVars, shape, trip, memVars, vad>>

\* resetMediaRecorder (audioCapture.js:286-298): the current recorder loses its
\* handlers and the service its recorder and its chunks
resetMediaRecorder(a) ==
  LET r == a.mediaRecorder
  IN IF r = 0 THEN [a EXCEPT !.audioChunks = <<>>]
     ELSE [a EXCEPT !.recorders[r].ondataavailable = FALSE, !.recorders[r].onstart = FALSE,
                    !.recorders[r].onstop = 0, !.mediaRecorder = 0, !.audioChunks = <<>>]

\* a timer of scheduleCleanup fires
CleanupTimer ==
  /\ audio.timers > 0
  /\ audio' = [resetMediaRecorder(audio) EXCEPT !.timers = @ - 1]
  /\ UNCHANGED <<cryptoVars, httpVars, shape, trip, memVars, vad>>

InitAudio == audio = NoAudio

\* ------------------------------------------------------------------------
\* toBase64 followed by fromBase64 (crypto.js:343-390), by length of the input
\* ------------------------------------------------------------------------
MaxTripLen == 100

NoTrip == [len |-> -1, encodedLen |-> -1, back |-> FALSE, err |-> "none"]

\* the bytes of the round trip of length n
TripBytes(n) == [i \in 1..n |-> (i * 11 + 3) % 256]

\* input lengths: the short ones, the chunk size and one byte more
TripLengths == 0..MaxTripLen \cup {CHUNK_SIZE, CHUNK_SIZE + 1}

\* what fromBase64(toBase64(bytes)) gives
TripOf(bytes) ==
  LET encoded == toBase64(bytes)
      r == fromBase64(encoded)
  IN [len |-> Len(bytes), encodedLen |-> Len(encoded),
      back |-> r.ok /\ r.val = bytes,
      err |-> IF r.ok THEN "none" ELSE r.code]

\* one round trip on the loaded module
Base64RoundTrip(n) ==
  /\ trip = NoTrip
  /\ trip' = TripOf(TripBytes(n))
  /\ UNCHANGED <<cryptoVars, httpVars, shape, memVars, vad, audio>>

InitTrip == trip = NoTrip

\* ------------------------------------------------------------------------
\* Specifications
\* ------------------------------------------------------------------------
\* the module as loaded: empty key cache, empty random cache
FreshRng ==
  /\ randomCache = [base |-> 0, len |-> 0]
  /\ cacheIndex = 0
  /\ drawn = 0
  /\ handed = {}
  /\ lastHanded = <<>>

\* the random cache after WarmKeys generateKey calls on the fresh module
WarmRng ==
  /\ randomCache = [base |-> 0, len |-> cacheSize]
  /\ cacheIndex = AES_KEY_LENGTH * WarmKeys
  /\ drawn = cacheSize
  /\ handed = 0..(AES_KEY_LENGTH * (WarmKeys - 1) - 1)
  /\ lastHanded = [i \in 1..AES_KEY_LENGTH |-> AES_KEY_LENGTH * (WarmKeys - 1) + i - 1]

InitCalls ==
  /\ heap = InitialHeap
  /\ cryptoKeyCache = <<>>
  /\ authentic = {}
  /\ calls = [s \in Slots |-> Idle]
  /\ envs = <<>>
  /\ started = 0
  /\ generated = 0
  /\ net = <<>>
  /\ store = <<>>
  /\ shape = NoShape
  /\ InitMemory
  /\ InitVad
  /\ InitAudio
  /\ InitTrip

Init == InitCalls /\ FreshRng

\* the fresh module, or the module after WarmKeys generateKey calls
InitRng == InitCalls /\ (FreshRng \/ WarmRng)

\* the caller begins a call with inputs from the given sets
EncryptCall(datas, keys) ==
  /\ started < MaxCalls
  /\ \E s \in Slots, d \in datas, k \in keys : EncryptBlobStart(s, d, k)

DecryptHandmade(ciphers, keys) ==
  /\ started < MaxCalls
  /\ \E s \in Slots, c \in ciphers, k \in keys : DecryptBlobStart(s, c, 0, "none", k)

DecryptEnvelope(tampers, keys) ==
  /\ started < MaxCalls
  /\ \E s \in Slots, i \in 1..Len(envs), t \in tampers, k \in keys :
       DecryptBlobStart(s, Tamper(envs[i].envelope, t), i, t, k)

GetKeyAwait == \E s \in Slots : GetKeyCacheCheck(s)

GetKeyStep == \E s \in Slots : GetKeyImport(s) \/ GetKeyStore(s)

GenerateKeyCall(limit) == generated < limit /\ generateKey

EncryptStep == \E s \in Slots : EncryptBlobCipher(s) \/ EncryptBlobFinish(s)

DecryptStep == \E s \in Slots : DecryptBlobCipher(s) \/ DecryptBlobFinish(s)

\* encryptBlob and decryptBlob calls, concurrent, over every key form
Next ==
  \/ EncryptCall(DataSet, KeyMaterials)
  \/ DecryptHandmade(HandmadeCiphers, KeyMaterials)
  \/ DecryptEnvelope(Tampers, KeyMaterials)
  \/ GetKeyAwait
  \/ GetKeyStep
  \/ EncryptStep
  \/ DecryptStep

Spec == Init /\ [][Next]_vars

\* the edge-case plaintexts under a base64 string key
EdgeData == {dEmpty, dSpace, dNewline, dTab}

NextEdge ==
  \/ EncryptCall(EdgeData, {kStrA})
  \/ DecryptEnvelope({"none", "strip_meta"}, {kStrA})
  \/ GetKeyStep
  \/ EncryptStep
  \/ DecryptStep

SpecEdge == Init /\ [][NextEdge]_vars

\* binary plaintexts under a base64 string key
NextBinary ==
  \/ EncryptCall(BinarySet, {kStrA})
  \/ DecryptEnvelope({"none", "strip_meta"}, {kStrA})
  \/ GetKeyStep
  \/ EncryptStep
  \/ DecryptStep

SpecBinary == Init /\ [][NextBinary]_vars

\* one envelope, then decryptBlob calls on it with the right or another valid
\* key, unaltered or with one byte of a field altered
ProbeKeys == {kStrA, kU8B}

ProbeEncrypt == started = 0 /\ \E s \in Slots : EncryptBlobStart(s, dText, kStrA)

ProbeDecrypt ==
  /\ started \in 1..MaxProbes
  /\ \E s \in Slots, i \in 1..Len(envs), t \in {"none"} \cup ByteTampers, k \in ProbeKeys :
       DecryptBlobStart(s, Tamper(envs[i].envelope, t), i, t, k)

NextProbe ==
  \/ ProbeEncrypt
  \/ ProbeDecrypt
  \/ GetKeyAwait
  \/ GetKeyStep
  \/ EncryptStep
  \/ DecryptStep

SpecProbe == Init /\ [][NextProbe]_vars

\* the envelope of one cipher output, for each plaintext length
NextEnvelope == \E n \in ShapeLengths : EnvelopeOfLength(n)

SpecEnvelope == Init /\ [][NextEnvelope]_vars

\* encryptBlob calls with data that is no string and no bytes, among valid
\* ones, under valid and invalid keys
InvalidData == {NullData, UndefinedData, NumberData}

NextInvalid ==
  \/ EncryptCall(InvalidData \cup {dText}, {kStrA, kU8B, kStrShort, NullKey})
  \/ GetKeyAwait
  \/ GetKeyStep
  \/ EncryptStep

SpecInvalid == Init /\ [][NextInvalid]_vars

\* calls that all use one key material (a base64 string, or one Uint8Array
\* object), interleaved at their awaits
ConcurrentKeys == {kStrA, kU8B}

OnlyKey(k) == \A s \in Slots : calls[s].op # "idle" => calls[s].key = k

ConcurrentEncrypt == \E k \in ConcurrentKeys : OnlyKey(k) /\ EncryptCall({dSpace, dText}, {k})

ConcurrentDecrypt == \E k \in ConcurrentKeys : OnlyKey(k) /\ DecryptEnvelope({"none"}, {k})

NextConcurrent ==
  \/ ConcurrentEncrypt
  \/ ConcurrentDecrypt
  \/ GetKeyAwait
  \/ GetKeyStep
  \/ EncryptStep
  \/ DecryptStep

SpecConcurrent == Init /\ [][NextConcurrent]_vars

\* the consumers of getSecureRandom: encryptBlob calls and generateKey calls
NextRng ==
  \/ EncryptCall({dSpace}, {kStrA})
  \/ GenerateKeyCall(MaxGenerated)
  \/ GetKeyStep
  \/ EncryptStep

SpecRng == InitRng /\ [][NextRng]_vars

Urls == {"real", "mock"}

\* the caller uploads an envelope encryptBlob returned
UploadCall == \E e \in 1..Len(envs), u \in Urls : UploadBlobStart(envs[e].envelope, e, u)

\* the caller downloads with what an upload resolved to ...
DownloadUploaded ==
  \E i \in 1..Len(net), u \in Urls :
    /\ net[i].op = "uploadBlob" /\ net[i].status = "resolved" /\ net[i].src > 0
    /\ DownloadAndDecryptStart(net[i].value, i, u, envs[net[i].src].key)

\* ... or with an identifier the endpoint issued, or one it never issued (0)
DownloadByIdentifier ==
  \E n \in 0..Len(store), u \in Urls : DownloadAndDecryptStart(BlobKeyString(n), 0, u, kStrA)

ServerStep == \E i \in 1..Len(net) : ServerAnswersUpload(i) \/ ServerAnswersDownload(i)

HttpResume == \E i \in 1..Len(net) : UploadBlobResume(i) \/ DownloadAndDecryptResume(i)

\* encrypt, upload, download against the endpoint
NextHttp ==
  \/ EncryptCall({dText}, {kStrA})
  \/ GetKeyStep
  \/ EncryptStep
  \/ UploadCall
  \/ DownloadUploaded
  \/ DownloadByIdentifier
  \/ ServerStep
  \/ HttpResume

SpecHttp == Init /\ [][NextHttp]_vars

\* MemoryService calls on the instances, interleaved at their awaits, against
\* the endpoint
SaveCall ==
  /\ Cardinality(PendingOps) < MaxInFlight
  /\ \E i \in Instances, h \in Histories : saveConversation(i, h)

LoadCall ==
  /\ Cardinality(PendingOps) < MaxInFlight
  /\ \E i \in Instances : loadConversation(i)

ClearCall ==
  /\ Cardinality(PendingOps) < MaxInFlight
  /\ \E i \in Instances : clearConversation(i)

MemoryStep == \E n \in 1..Len(ops) : SaveEncryptBlob(n) \/ SaveResume(n) \/ LoadResume(n)

EndpointStep == \E n \in 1..Len(ops) : EndpointAnswersSave(n) \/ EndpointAnswersLoad(n)

NextMemory ==
  \/ SaveCall
  \/ LoadCall
  \/ ClearCall
  \/ MemoryStep
  \/ EndpointStep

SpecMemory == Init /\ [][NextMemory]_vars

\* the voice-detection generators and processors: one of them is created and
\* driven by its consumer, its audio source and the runtime
CreateAny == \E impl \in {"browser", "node", "worklet"} : CreateVad(impl)

ConsumerStep == \E kind \in {"next", "return"} : ConsumerRequest(kind)

AudioCallback == \E n \in 1..MaxInput, a \in Amplitudes : OnAudioProcess(n, a)

WorkletStep == \E n \in 1..MaxInput, a \in Amplitudes : WorkletProcess(n, a)

MicStep == \E n \in 1..MaxInput, a \in Amplitudes : MicChunk(n, a)

NodeStep == \E voice \in BOOLEAN : NodeFrame(voice)

NextVad ==
  \/ CreateAny
  \/ ConsumerStep
  \/ GeneratorResume
  \/ GetUserMediaSettles
  \/ PollQueue
  \/ SleepEnds
  \/ AudioCallback
  \/ WorkletInit
  \/ WorkletStep
  \/ MicStep
  \/ MicEnds
  \/ NodeStep

SpecVad == Init /\ [][NextVad]_vars

\* the browser generator alone; the runtime runs every job and timer that is
\* ready and getUserMedia settles, while neither the consumer nor the audio
\* source owes a step
CreateBrowser == CreateVad("browser")

NextVadBrowser ==
  \/ CreateBrowser
  \/ ConsumerStep
  \/ GeneratorResume
  \/ GetUserMediaSettles
  \/ PollQueue
  \/ SleepEnds
  \/ AudioCallback

SpecVadBrowser ==
  /\ Init
  /\ [][NextVadBrowser]_vars
  /\ WF_vars(GeneratorResume)
  /\ WF_vars(GetUserMediaSettles)
  /\ WF_vars(PollQueue)
  /\ WF_vars(SleepEnds)

\* the AudioCaptureService with its recorders' events and its cleanup timers
RecorderStarts == \E r \in 1..Len(audio.recorders) : RecorderStart(r)

RecorderStops == \E r \in 1..Len(audio.recorders) : RecorderStop(r)

RecorderData == \E r \in 1..Len(audio.recorders) : DataAvailable(r)

NextAudio ==
  \/ startRecording
  \/ stopRecording
  \/ RecorderStarts
  \/ RecorderStops
  \/ RecorderData
  \/ CleanupTimer

SpecAudio == Init /\ [][NextAudio]_vars

\* base64 round trips, one per behaviour
NextTrip == \E n \in TripLengths : Base64RoundTrip(n)

SpecTrip == Init /\ [][NextTrip]_vars

\* generateKey calls only, from the fresh module up to the warm state
SpecWarm == Init /\ [][GenerateKeyCall(WarmKeys)]_vars

\* the warm initial state of SpecRng is the state WarmKeys generateKey calls reach
WarmStateReached == generated = WarmKeys => WarmRng

\* ------------------------------------------------------------------------
\* Properties
\* ------------------------------------------------------------------------
ValidKeyAtCall(x) == IsRawForm(x.key) /\ Len(x.keyAtCall) = AES_KEY_LENGTH

\* a finished decryptBlob(e, k) of an envelope e that encryptBlob(d, k) returned,
\* unaltered and with the same key object k
RoundTrip(c) ==
  /\ c.op = "decryptBlob" /\ c.pc = "done"
  /\ c.src > 0 /\ c.tamper = "none"
  /\ c.key = envs[c.src].key
  /\ ValidKeyAtCall(envs[c.src])
  /\ envs[c.src].data.kind = "string"

\* C1: for every valid 32-byte key k (base64 string, ArrayBuffer or typed-array
\* view) and every text d, decryptBlob(encryptBlob(d, k), k) resolves to d.
\* Stated for the non-empty texts; the empty text is the case of C3.
C1_RoundTrip ==
  \A s \in Slots :
    RoundTrip(calls[s]) /\ Len(envs[calls[s].src].data.units) > 0
      => /\ calls[s].status = "resolved"
         /\ calls[s].text = envs[calls[s].src].data.units

\* C2: after any encryptBlob or decryptBlob call, resolved or rejected, the
\* caller's key buffer holds the bytes it held when the call was made.
C2_KeysReadOnly ==
  \A s \in Slots :
    calls[s].pc = "done" /\ calls[s].key.form \in {"buffer", "view"}
      => heap[calls[s].key.buf] = calls[s].keyAtCall

\* C3: "", " ", "\n" and "\t" round-trip exactly under a valid key: encryptBlob
\* resolves to an envelope (its ciphertext field empty when d is empty) and
\* decryptBlob of that envelope resolves to d.
C3_EdgeRoundTrip ==
  /\ \A i \in 1..Len(envs) :
       envs[i].data = dEmpty => Len(envs[i].envelope.ciphertext) = 0
  /\ \A s \in Slots :
       RoundTrip(calls[s]) /\ envs[calls[s].src].data \in EdgeData
         => /\ calls[s].status = "resolved"
            /\ calls[s].text = envs[calls[s].src].data.units

\* C4: every getSecureRandom call hands out source bytes no earlier call was
\* given; the IVs of any two encryptBlob calls come from disjoint positions of
\* the random source, and no IV value is used twice.
C4_FreshIv ==
  /\ Range(lastHanded) \cap handed = {}
  /\ Cardinality(Range(lastHanded)) = Len(lastHanded)
  /\ \A s \in Slots :
       calls[s].ivOffsets # <<>> =>
         /\ Len(calls[s].ivOffsets) = AES_IV_LENGTH
         /\ Range(calls[s].ivOffsets) \subseteq handed \cup Range(lastHanded)
         /\ calls[s].iv = RandomBytes(calls[s].ivOffsets)
  /\ \A s, t \in Slots :
       s # t /\ calls[s].pc # "done" /\ calls[t].pc # "done"
         /\ calls[s].ivOffsets # <<>> /\ calls[t].ivOffsets # <<>>
         => Range(calls[s].ivOffsets) \cap Range(calls[t].ivOffsets) = {}
  /\ \A i, j \in 1..Len(envs) :
       i # j => /\ Range(envs[i].ivOffsets) \cap Range(envs[j].ivOffsets) = {}
                /\ envs[i].envelope.iv # envs[j].envelope.iv

\* two envelopes exist and one of them took its IV from a refilled cache
C4_Witness ==
  /\ Len(envs) >= 2
  /\ \E i \in 1..Len(envs) : envs[i].ivOffsets[1] >= cacheSize

EnvelopeBytes(e) == <<Decoded(e.iv), Decoded(e.ciphertext), Decoded(e.tag)>>

\* C5: for an envelope e produced by encryptBlob under key k, decryptBlob(e', k)
\* rejects, and never resolves, for every e' that differs from e in at least
\* one byte of the decoded iv, ciphertext or tag.
C5_TamperRejected ==
  \A s \in Slots :
    LET c == calls[s]
    IN c.op = "decryptBlob" /\ c.src > 0 /\ c.key = envs[c.src].key
         /\ EnvelopeBytes(c.cipher) # EnvelopeBytes(envs[c.src].envelope)
       => /\ c.status # "resolved"
          /\ c.pc = "done" => c.status = "rejected"

\* an altered tag reached subtle.decrypt under the right key and was refused
C5_Witness ==
  \E s \in Slots :
    LET c == calls[s]
    IN /\ c.op = "decryptBlob" /\ c.pc = "done" /\ c.src > 0
       /\ c.tamper = "tag_last" /\ c.key = kStrA /\ envs[c.src].key = kStrA
       /\ "decrypt" \in c.prims
       /\ c.err = "DECRYPTION_FAILED"

\* C6: decrypting a valid envelope produced under key k with a different valid
\* 32-byte key k' rejects with the decryption-failure error, whatever earlier
\* calls have cached.  Stated for envelopes of non-empty plaintexts (C3 covers
\* the empty one).
C6_WrongKeyRejected ==
  \A s \in Slots :
    LET c == calls[s]
    IN c.op = "decryptBlob" /\ c.pc = "done" /\ c.src > 0 /\ c.tamper = "none"
         /\ ValidKeyAtCall(c) /\ ValidKeyAtCall(envs[c.src])
         /\ c.keyAtCall # envs[c.src].keyAtCall
         /\ Len(envs[c.src].envelope.ciphertext) > 0
       => c.status = "rejected" /\ c.err = "DECRYPTION_FAILED"

\* the other argument of the call passes its own validation
OtherArgumentOk(c) ==
  \/ c.op = "encryptBlob" /\ validatePlaintext(c.data).ok
  \/ c.op = "decryptBlob" /\ CheckCipher(c.cipher).ok

\* C7: for a key material whose decoded length is not 32 bytes, in every state
\* of the key cache, encryptBlob and decryptBlob reject with the key-length
\* error, invoke no cryptographic primitive and use no previously imported key.
\* Stated for calls whose data or envelope argument is itself acceptable.
C7_KeyLengthRejected ==
  \A s \in Slots :
    LET c == calls[s]
    IN HasDecodedLength(c.key) /\ Len(c.keyAtCall) # AES_KEY_LENGTH /\ OtherArgumentOk(c)
       => /\ c.prims = {}
          /\ ~c.cacheHit
          /\ c.status # "resolved"
          /\ c.pc = "done" => c.err = "INVALID_KEY_LENGTH"

EnvelopeErrors ==
  {"INVALID_CIPHER", "INCOMPLETE_CIPHER", "UNSUPPORTED_ALGORITHM",
   "INVALID_BASE64", "DECODING_ERROR", "INVALID_IV", "INVALID_TAG"}

LacksField(cipher) == cipher.has # {"iv", "ciphertext", "tag"}

\* an envelope that lacks a field, or whose iv or tag does not decode to its length
BadEnvelope(cipher) ==
  \/ LacksField(cipher)
  \/ ~fromBase64(cipher.iv).ok \/ Len(Decoded(cipher.iv)) # AES_IV_LENGTH
  \/ ~fromBase64(cipher.tag).ok \/ Len(Decoded(cipher.tag)) # AES_TAG_LENGTH

\* `!iv || !ciphertext || !tag`: a field that is absent or the empty string
FalsyField(cipher) == \E f \in {"iv", "ciphertext", "tag"} : CipherFalsy(cipher, f)

C9_DownloadDecrypts ==
  \A i \in 1..Len(net) :
    LET c == net[i]
    IN c.op = "downloadAndDecrypt" /\ c.pc = "done" /\ c.resp.ok
       => /\ c.requests = 1
          /\ c.decryptArgs = <<[cipher |-> c.resp.body.cipher, key |-> c.key]>>
          /\ c.status = "resolved"

\* C10: against a store that keeps each uploaded envelope under the blobKey it
\* returns and echoes it on download, encryptBlob(d, k), uploadBlob(envelope,
\* url), downloadAndDecrypt(blobKey, url, k) resolves to the plaintext d.
C10_UploadDownloadRoundTrip ==
  \A i \in 1..Len(net) :
    LET c == net[i]
    IN c.op = "downloadAndDecrypt" /\ c.pc = "done" /\ c.upload > 0
         /\ ~IsMockUrl(c.url) /\ ~IsMockUrl(net[c.upload].url)
         /\ c.resp.mode = "store"
       => /\ c.status = "resolved"
          /\ c.value = StringVal(envs[net[c.upload].src].data.units)

\* a call that received a response / whose request failed in transport
Answered(c) == c.pc = "done" /\ c.resp.mode # "none"
TransportFailed(c) == c.pc = "done" /\ c.requests = 1 /\ c.resp.mode = "none"

\* C11: an upload answered with a success status and the JSON body
\* { blobKey: b } resolves to exactly the string b.
C11_UploadReturnsBlobKey ==
  \A i \in 1..Len(net) :
    LET c == net[i]
    IN c.op = "uploadBlob" /\ Answered(c) /\ c.resp.ok /\ c.resp.body.kind = "blobKeyJson"
       => c.status = "resolved" /\ c.value = BlobKeyString(c.resp.body.id)

\* C12: an upload answered with a non-success status s rejects with the
\* upload-failure error carrying s and the response's status text.
C12_UploadFailureCarriesStatus ==
  \A i \in 1..Len(net) :
    LET c == net[i]
    IN c.op = "uploadBlob" /\ Answered(c) /\ ~c.resp.ok
       => /\ c.status = "rejected"
          /\ c.err = "Upload failed"
          /\ c.errStatus = c.resp.status
          /\ c.errText = c.resp.statusText

\* C13: a download answered with a non-success status s rejects with the
\* download-failure error identifying s and its status text, and status 404
\* is reported as the distinct not-found failure.
C13_DownloadFailure ==
  \A i \in 1..Len(net) :
    LET c == net[i]
    IN c.op = "downloadAndDecrypt" /\ Answered(c) /\ ~c.resp.ok
       => /\ c.status = "rejected"
          /\ c.errStatus = c.resp.status
          /\ c.errText = c.resp.statusText
          /\ c.err = IF c.resp.status = 404 THEN "NotFound" ELSE "Download failed"

\* C14: a call issues at most one HTTP request, and a transport failure
\* reaches the caller as a rejection carrying that failure: it is not
\* retried and not turned into a result.
C14_NoRetry ==
  \A i \in 1..Len(net) :
    LET c == net[i]
    IN /\ c.requests <= 1
       /\ c.pc = "failed" => c.status = "pending"
       /\ TransportFailed(c) =>
            c.status = "rejected" /\ c.err = "NetworkError" /\ c.value = Undefined

\* both helpers have completed after a transport failure of their one request
C14_Witness ==
  \E i, j \in 1..Len(net) :
    /\ net[i].op = "uploadBlob" /\ TransportFailed(net[i])
    /\ net[j].op = "downloadAndDecrypt" /\ TransportFailed(net[j])

\* C15: for every apiUrl, an uploadBlob call that resolves has posted its
\* payload to the endpoint and resolves to the identifier in the response to
\* that request; no blobKey is produced without a server response.
C15_BlobKeyFromResponse ==
  \A i \in 1..Len(net) :
    LET c == net[i]
    IN c.op = "uploadBlob" /\ c.status = "resolved"
       => /\ c.requests = 1
          /\ c.resp.ok
          /\ c.resp.body.kind \in {"blobKeyJson", "blobKeyPlain"}
          /\ c.value = BlobKeyString(c.resp.body.id)

\* what subtle.decrypt yields for envelope e under the key bytes k
OpenedWith(e, k) ==
  AesGcmDecrypt(k, Decoded(e.envelope.iv),
                Decoded(e.envelope.ciphertext) \o Decoded(e.envelope.tag))

\* C16: for encryptBlob / decryptBlob calls running concurrently with the same
\* key material, under every interleaving each call works with the key it was
\* given, as it would alone: every envelope produced decrypts under that key
\* to the plaintext of its own call.
C16_ConcurrentCallsIndependent ==
  /\ \A s \in Slots :
       calls[s].cryptoKey # <<>> => calls[s].cryptoKey = calls[s].keyAtCall
  /\ \A i \in 1..Len(envs) :
       /\ OpenedWith(envs[i], envs[i].keyAtCall).ok
       /\ TextDecode(OpenedWith(envs[i], envs[i].keyAtCall).val) = envs[i].data.units

\* C17: for every valid 32-byte key k and every binary input d (arbitrary
\* bytes, valid UTF-8 or not), decryptBlob(encryptBlob(d, k), k) yields a value
\* equal to d: it resolves, and the bytes of the value it resolves to are d.
C17_BinaryRoundTrip ==
  \A s \in Slots :
    LET c == calls[s]
    IN /\ c.op = "decryptBlob" /\ c.pc = "done"
       /\ c.src > 0 /\ c.tamper = "none"
       /\ c.key = envs[c.src].key
       /\ ValidKeyAtCall(envs[c.src])
       /\ envs[c.src].data.kind = "binary"
       => /\ c.status = "resolved"
          /\ TextEncode(c.text) = envs[c.src].data.units

\* a finished decryptBlob call on a structurally valid envelope that failed:
\* the envelope encryptBlob returned, unaltered or with one byte of its iv,
\* ciphertext or tag altered, and a valid 32-byte key
FailedDecrypt(c) ==
  /\ c.op = "decryptBlob" /\ c.pc = "done" /\ c.status = "rejected"
  /\ c.src > 0 /\ c.tamper \in {"none"} \cup ByteTampers
  /\ ~BadEnvelope(c.cipher) /\ ~FalsyField(c.cipher)
  /\ ValidKeyAtCall(c)

WrongKey(c) == c.cryptoKey # envs[c.src].cryptoKey

\* C18: on structurally valid envelopes, the failure decryptBlob reports is the
\* same error (the CryptoError with code DECRYPTION_FAILED and its fixed
\* message) whether the cause is a wrong key or an altered iv, ciphertext or
\* tag: two failing calls that differ in the cause report the same.
C18_FailuresIndistinguishable ==
  \A s, t \in Slots :
    FailedDecrypt(calls[s]) /\ FailedDecrypt(calls[t])
    => calls[s].err = calls[t].err /\ calls[s].err = "DECRYPTION_FAILED"

\* two failed calls side by side: one with another key on the unaltered
\* envelope, one with the right key on an altered envelope
C18_Witness ==
  \E s, t \in Slots :
    /\ FailedDecrypt(calls[s]) /\ FailedDecrypt(calls[t])
    /\ calls[s].tamper = "none" /\ WrongKey(calls[s])
    /\ calls[t].tamper \in ByteTampers /\ ~WrongKey(calls[t])

\* the envelope of a resolved encryptBlob call measures as it should
CallShapeOk(c) ==
  LET m == ShapeOf(c.envelope, c.out.val, Len(c.plainBytes))
  IN m.ivLen = AES_IV_LENGTH /\ m.tagOk /\ m.ctOk /\ m.ctLen = m.plainLen

\* C19: every envelope encryptBlob returns has an iv that decodes to exactly
\* 12 bytes, a tag that decodes to the last 16 bytes of the raw cipher output,
\* and a ciphertext that decodes to the raw output without those 16 bytes, as
\* many bytes as the plaintext has.
C19_EnvelopeShape ==
  /\ \A s \in Slots :
       calls[s].op = "encryptBlob" /\ calls[s].status = "resolved" => CallShapeOk(calls[s])
  /\ shape # NoShape =>
       /\ shape.ivLen = AES_IV_LENGTH
       /\ shape.tagOk
       /\ shape.ctOk
       /\ shape.ctLen = shape.plainLen

NewlySettled(n, op, how) ==
  /\ ops'[n].op = op
  /\ ops'[n].status = how
  /\ (n > Len(ops) \/ ops[n].status = "pending")

C22_LoadNeverRejects ==
  [][\A n \in 1..Len(ops') :
       ops'[n].op = "loadConversation" =>
         /\ ops'[n].status # "rejected"
         /\ (n > Len(ops) /\ (~isConfigured(ops'[n].inst) \/ ~Truthy(FoundBlobKey(ops'[n].inst)))) =>
              /\ ops'[n].status = "resolved"
              /\ ops'[n].loaded = <<>>
              /\ ops'[n].http = NoCall
         /\ (ops'[n].status = "resolved" /\ ops'[n].http.status = "rejected") =>
              ops'[n].loaded = <<>>
         /\ (ops'[n].status = "resolved" /\ ops'[n].http.status = "resolved"
               /\ ~JsonParse(ops'[n].http.value).ok) =>
              ops'[n].loaded = <<>>
         /\ ops'[n].http.requests <= 1
    ]_vars

\* one load has ended on a failed download, another on a text that is no JSON
C22_Witness ==
  \E n, m \in 1..Len(ops) :
    /\ ops[n].op = "loadConversation" /\ ops[n].status = "resolved"
    /\ ops[n].http.status = "rejected" /\ ops[n].http.requests = 1
    /\ ops[m].op = "loadConversation" /\ ops[m].status = "resolved"
    /\ ops[m].http.status = "resolved" /\ ~JsonParse(ops[m].http.value).ok

\* load l began after save s had succeeded, with no other save and no clear
\* between the start of s and the start of l, on instances of one configuration
LoadsAfterSave(l, s) ==
  /\ s < l
  /\ ops[s].op = "saveConversation" /\ ops[s].status = "resolved"
  /\ s \notin ops[l].pending
  /\ ops[l].op = "loadConversation" /\ ops[l].status = "resolved"
  /\ MemoryEnv[ops[l].inst] = MemoryEnv[ops[s].inst]
  /\ \A k \in 1..(l - 1) :
       (k # s /\ ops[k].op \in {"saveConversation", "clearConversation"}) =>
         (k < s /\ k \notin ops[s].pending)

\* C23: after saveConversation(h) has succeeded and no later save or clear has
\* happened, loadConversation, on the same instance or on another instance
\* sharing localStorage and key, downloads the blob stored under the blobKey of
\* that save and, the endpoint answering from what it stored, resolves to h.
C23_LoadReturnsSaved ==
  \A l, s \in 1..Len(ops) :
    (LoadsAfterSave(l, s) /\ ops[l].http.resp.mode \in {"store", "backend"}) =>
      /\ ops[l].http.blobKey = ops[s].blobKey
      /\ ops[l].http.requests = 1
      /\ ops[l].loaded = ops[s].history

\* C28: once clearConversation() has been called on a service, its stored blob
\* key (instance field and localStorage entry) stays cleared, and its
\* loadConversation returns [] without a download, until a saveConversation
\* started after the clear succeeds; also when a saveConversation started before
\* the clear completes after it.  (One service instance does the saving.)
C28_ClearedUntilNextSave ==
  \A c \in 1..Len(ops) :
    (/\ ops[c].op = "clearConversation"
     /\ \A k \in 1..Len(ops) : ops[k].op = "saveConversation" => ops[k].inst = ops[c].inst
     /\ \A k \in (c + 1)..Len(ops) :
          ~(ops[k].op = "saveConversation" /\ ops[k].status = "resolved")) =>
      /\ services[ops[c].inst].conversationBlobKey = Null
      /\ localStorage = Null
      /\ \A l \in (c + 1)..Len(ops) :
           (ops[l].op = "loadConversation" /\ ops[l].inst = ops[c].inst) =>
             ops[l].http = NoCall /\ ops[l].loaded = <<>>

\* ------------------------------------------------------------------------
\* Voice detection: what is yielded, how the input is framed, the cleanup
\* ------------------------------------------------------------------------
\* the captured stream from sample `from` on, cut into consecutive frames
FramesOf(heard, from) ==
  [k \in 1..((Len(heard) - from) \div FrameLength) |->
     SubSeq(heard, from + (k - 1) * FrameLength + 1, from + k * FrameLength)]

\* the samples of a sequence of frames, in order
Flatten(frames) ==
  LET RECURSIVE Go(_)
      Go(fs) == IF fs = <<>> THEN <<>> ELSE Head(fs) \o Go(Tail(fs))
  IN Go(frames)

\* the samples held back for the next frame
Leftover ==
  IF vad.impl = "node" THEN BufferBytes(vad.buffer) ELSE SubSeq(vad.buf, 1, vad.bufOffset)

\* C24: the frames a generator has yielded are exactly the complete frames
\* classified as voice, in capture order (the browser generator may still hold
\* the latest of them in its queue); so input without a voiced frame yields nothing
C24_YieldsVoicedFrames ==
  vad.impl \in {"browser", "node"} =>
    IF vad.impl = "browser"
    THEN vad.yielded \o vad.queue = VoicedFrames(FramesOf(vad.heard, 0))
    ELSE vad.yielded = vad.voiced

CleanedUp == ~vad.connected /\ ~vad.onaudioprocess /\ vad.tracksStopped /\ vad.ctxClosed

\* C25: once the consumer has asked the browser generator to return and the
\* generator holds the microphone and the audio graph, the cleanup eventually runs
C25_ReturnLeadsToCleanup ==
  (vad.impl = "browser" /\ vad.stopRequested /\ vad.acquired) ~> CleanedUp

\* ------------------------------------------------------------------------
\* AudioCaptureService: the deferred cleanup
\* ------------------------------------------------------------------------
\* the chunks recorder r has emitted so far
EmittedChunks(r) == [n \in 1..audio.recorders[r].emitted |-> <<r, n>>]

\* C29: the latest recording, begun after every stopRecording had resolved and
\* not yet stopped itself, is the service's MediaRecorder, keeps its handlers,
\* and the service holds every chunk it has emitted
C29_CleanupSparesNextRecording ==
  LET r == Len(audio.recorders)
  IN (r > 0 /\ audio.recorders[r].afterStop /\ ~audio.recorders[r].stopRequested)
       => /\ audio.mediaRecorder = r
          /\ audio.recorders[r].ondataavailable
          /\ audio.audioChunks = EmittedChunks(r)

\* ------------------------------------------------------------------------
\* Base64 round trip
\* ------------------------------------------------------------------------
\* C26: for every byte sequence b, also of the chunk size and above,
\* fromBase64(toBase64(b)) succeeds and equals b
C26_Base64RoundTrip ==
  trip # NoTrip => trip.back /\ trip.err = "none"

\* ------------------------------------------------------------------------
\* The key cache
\* ------------------------------------------------------------------------
\* C27: under every interleaving of getKey calls, every entry of the key cache
\* holds, under its cache key, the CryptoKey imported from exactly the 32 bytes
\* the cache key encodes; and a call served from the cache works with the key
\* its material denoted when the call was made
C27_CacheEntriesMatchKeys ==
  /\ \A i \in 1..Len(cryptoKeyCache) :
       /\ Len(cryptoKeyCache[i][2]) = AES_KEY_LENGTH
       /\ cryptoKeyCache[i][2] = Decoded(cryptoKeyCache[i][1])
  /\ \A s \in Slots :
       calls[s].cacheHit => calls[s].cryptoKey = calls[s].keyAtCall

====
